---- MODULE Spec2Model ----
(***************************************************************************)
(* Formation layout and state-synchronisation engine of the lineup editor  *)
(* (src/src/App.tsx).  The React component is modelled as a state machine: *)
(* one variable per useState / useRef cell, one action per event handler,  *)
(* timer callback or network continuation.  Every handler runs to          *)
(* completion and is followed by the commit of its batched state updates   *)
(* and by the effects whose dependencies changed (React 18 batching), so   *)
(* an action is "handler + re-render + effects".  Closures are modelled by *)
(* value: a timer, an interval or a pending fetch carries the state cells  *)
(* its callback captured when it was created.                              *)
(*                                                                         *)
(* Numbers that are IEEE doubles in the source are exact rationals here    *)
(* (pairs <<numerator, denominator>>, normalised).  Strings that the code  *)
(* parses are sequences of one-character strings.                          *)
(***************************************************************************)
EXTENDS Integers, Sequences, FiniteSets, TLC

(***************************************************************************)
(* Optional values (T | null) and small helpers                            *)
(***************************************************************************)
None == << >>
Some(v) == << v >>
IsSome(o) == o # << >>
TheVal(o) == o[1]

Range(s) == { s[i] : i \in DOMAIN s }

RECURSIVE SumSeq(_)
SumSeq(s) == IF s = << >> THEN 0 ELSE Head(s) + SumSeq(Tail(s))

RECURSIVE Concat(_)
Concat(ss) == IF ss = << >> THEN << >> ELSE Head(ss) \o Concat(Tail(ss))

RemoveAt(s, i) == [ j \in 1..(Len(s) - 1) |-> IF j < i THEN s[j] ELSE s[j + 1] ]

(***************************************************************************)
(* Exact rational arithmetic                                               *)
(***************************************************************************)
Abs(n) == IF n < 0 THEN 0 - n ELSE n

RECURSIVE GCD(_, _)
GCD(a, b) == IF b = 0 THEN a ELSE GCD(b, a % b)

Frac(n, d) ==
  LET s == IF d < 0 THEN 0 - 1 ELSE 1
      g == GCD(Abs(n), Abs(d))
  IN  << (s * n) \div g, (s * d) \div g >>

Num(k) == << k, 1 >>
Plus(a, b) == Frac(a[1] * b[2] + b[1] * a[2], a[2] * b[2])
Minus(a, b) == Frac(a[1] * b[2] - b[1] * a[2], a[2] * b[2])
Times(a, b) == Frac(a[1] * b[1], a[2] * b[2])
Over(a, b) == Frac(a[1] * b[2], a[2] * b[1])
Less(a, b) == a[1] * b[2] < b[1] * a[2]
Leq(a, b) == a[1] * b[2] <= b[1] * a[2]
RMax(a, b) == IF Less(a, b) THEN b ELSE a
RMin(a, b) == IF Less(b, a) THEN b ELSE a
\* Math.round: nearest integer, halves towards +infinity
Round(a) == (2 * a[1] + a[2]) \div (2 * a[2])
\* Math.hypot(dx, dy) > t, for integer pixel offsets
HypotExceeds(dx, dy, t) == dx * dx + dy * dy > t * t

(***************************************************************************)
(* Module-level constants and pure functions of App.tsx                    *)
(***************************************************************************)
MOVEMENT_THRESHOLD == 6

\* a conversion that lets the percentage leave the field
clamp01_unclamped(v) == v

\* App.tsx 53-55
clamp01(v) == RMax(Num(0), RMin(Num(100), v))

\* Not-a-number line count (parseInt of a part without leading digits).
\* Line counts come from splitting on "-", so no real count is negative.
NaN == 0 - 1

\* the number of times `for (i = 0; i < lineCount; i++)` runs
LoopCount(lineCount) == IF lineCount = NaN THEN 0 ELSE lineCount

\* y of one line (App.tsx 67-81); the rawY/computedY values of lines 61-65
\* are overwritten on both branches and never reach the result.
yForLine_fromTop(lines, lineIndex) ==
  IF lineIndex = 0 THEN Num(90)
  ELSE Plus(Num(10), Times(Over(Num(90 - 10), Num(Len(lines) - 1)), Num(lineIndex)))

yForLine(lines, lineIndex) ==
  IF lineIndex = 0
    THEN Num(90)
    ELSE LET totalLines == Len(lines)
             topY == 10
             bottomY == 90
             spacing == Over(Num(bottomY - topY), Num(totalLines - 1))
         IN  Minus(Num(bottomY), Times(spacing, Num(lineIndex)))

\* seats counted from the left: the first seat of a line gets the smallest x
seatX_ascending(lineCount, i) ==
  LET baseX == Times(Frac(i + 1, lineCount + 1), Num(100))
  IN  Plus(Num(50), Times(Minus(baseX, Num(50)), Frac(6, 5)))

\* x of seat i (0-based) in a line of lineCount seats (App.tsx 85-86)
seatX(lineCount, i) ==
  LET baseX == Times(Frac(lineCount - i, lineCount + 1), Num(100))
  IN  Plus(Num(50), Times(Minus(baseX, Num(50)), Frac(6, 5)))

\* the seats pushed for one line, in push order (App.tsx 83-88)
linePositions_extraSeat(lines, lineIndex) ==
  [ k \in 1..(LoopCount(lines[lineIndex + 1]) + 1) |->
      [ x |-> seatX(lines[lineIndex + 1], k - 1), y |-> yForLine(lines, lineIndex) ] ]

linePositions(lines, lineIndex) ==
  [ k \in 1..LoopCount(lines[lineIndex + 1]) |->
      [ x |-> seatX(lines[lineIndex + 1], k - 1), y |-> yForLine(lines, lineIndex) ] ]

calcPositions(formation) ==
  Concat([ l \in 1..Len(formation.lines) |-> linePositions(formation.lines, l - 1) ])

(***************************************************************************)
(* Strings the code parses: sequences of one-character strings             *)
(***************************************************************************)
Digits == { "0", "1", "2", "3", "4", "5", "6", "7", "8", "9" }

DigitVal(c) ==
  CASE c = "0" -> 0 [] c = "1" -> 1 [] c = "2" -> 2 [] c = "3" -> 3 [] c = "4" -> 4
    [] c = "5" -> 5 [] c = "6" -> 6 [] c = "7" -> 7 [] c = "8" -> 8 [] c = "9" -> 9

\* String.prototype.split(sep) for a one-character separator
RECURSIVE SplitFrom(_, _, _)
SplitFrom(s, sep, cur) ==
  IF s = << >> THEN << cur >>
  ELSE IF Head(s) = sep THEN << cur >> \o SplitFrom(Tail(s), sep, << >>)
  ELSE SplitFrom(Tail(s), sep, Append(cur, Head(s)))

Split(s, sep) == SplitFrom(s, sep, << >>)

\* parseInt(s, 10) on a part without sign or white space: the value of the
\* longest prefix of digits, NaN when there is none
RECURSIVE ParseDigits(_, _)
ParseDigits(s, acc) ==
  IF s = << >> \/ Head(s) \notin Digits THEN acc
  ELSE ParseDigits(Tail(s), 10 * acc + DigitVal(Head(s)))

parseInt(s) == IF s = << >> \/ Head(s) \notin Digits THEN NaN ELSE ParseDigits(s, 0)

\* App.tsx 765-771
parseFormation(formationStr) ==
  IF formationStr = << >> THEN << 1, 4, 3, 3 >>
  ELSE LET parts == Split(formationStr, "-")
       IN  << 1 >> \o [ i \in 1..Len(parts) |-> parseInt(parts[i]) ]

\* formation names used by the editor and the feed
S442 == << "4", "-", "4", "-", "2" >>
S433 == << "4", "-", "3", "-", "3" >>
S352 == << "3", "-", "5", "-", "2" >>
S4231 == << "4", "-", "2", "-", "3", "-", "1" >>
S343 == << "3", "-", "4", "-", "3" >>
S532 == << "5", "-", "3", "-", "2" >>

\* FormationEditor.tsx 25-32
FORMATIONS_FE ==
  << [ name |-> S442, lines |-> << 1, 4, 4, 2 >> ],
     [ name |-> S433, lines |-> << 1, 4, 3, 3 >> ],
     [ name |-> S352, lines |-> << 1, 3, 5, 2 >> ],
     [ name |-> S4231, lines |-> << 1, 4, 2, 3, 1 >> ],
     [ name |-> S343, lines |-> << 1, 3, 4, 3 >> ],
     [ name |-> S532, lines |-> << 1, 5, 3, 2 >> ] >>

(***************************************************************************)
(* Mode transform: the projection used when rendering and broadcasting in  *)
(* combined-vertical mode, and the inverse the drag handlers apply         *)
(***************************************************************************)
\* App.tsx 1206-1209 (render) and 173-176 (broadcast): team A
mapYA(y) == Plus(Num(2), Times(Over(y, Num(100)), Num(50)))
\* team B compressed into the bottom half without the mirror
mapYB_unmirrored(y) == Plus(Num(48), Times(Over(y, Num(100)), Num(50)))

\* App.tsx 1246-1250 (render) and 201-205 (broadcast): team B
mapYB(y) == Plus(Num(48), Times(Over(Minus(Num(100), y), Num(100)), Num(50)))
mapX(x) == Plus(Num(50), Times(Minus(x, Num(50)), Frac(23, 20)))

\* App.tsx 1005: onPointerMove, vertical mode
halfYA(py) == clamp01(Times(Over(py, Num(50)), Num(100)))
\* App.tsx 1062: onPointerMoveB, vertical mode
halfYB(py) == clamp01(Times(Over(Minus(Num(100), py), Num(50)), Num(100)))

(***************************************************************************)
(* Override resolution and the seats drawn on screen / sent to the sink    *)
(***************************************************************************)
HasOverride(ov, index) == index \in DOMAIN ov

\* `overrides[index] ?? defaultPos`
resolvePos_ignoreOverride(ov, index, defaultPos) == defaultPos

resolvePos(ov, index, defaultPos) ==
  IF HasOverride(ov, index) THEN ov[index] ELSE defaultPos

\* Math.round(v * 100) / 100
round2(v) == Frac(Round(Times(v, Num(100))), 100)

Flag(player, field) == IF field \in DOMAIN player THEN player[field] ELSE FALSE

\* a map over the players that keeps the entries without a seat position
SeatIndices_allPlayers(playersArg, positions) == [ k \in 1..Len(playersArg) |-> k - 1 ]

\* indices of players.map(...) entries that are not null (a seat position
\* exists for the index), in order
SeatIndices(playersArg, positions) ==
  SelectSeq([ k \in 1..Len(playersArg) |-> k - 1 ], LAMBDA i : i + 1 <= Len(positions))

\* App.tsx 165-190
teamAPositions(formationArg, playersArg, ov, vertical) ==
  LET playerPositionsA == calcPositions(formationArg)
      idx == SeatIndices(playersArg, playerPositionsA)
      seat(index) ==
        LET base == resolvePos(ov, index, playerPositionsA[index + 1])
            pos == IF vertical THEN [ x |-> mapX(base.x), y |-> mapYA(base.y) ] ELSE base
            player == playersArg[index + 1]
        IN  [ id |-> << "A", index >>, team |-> "A",
              number |-> player.number, name |-> player.name,
              x |-> round2(pos.x), y |-> round2(pos.y),
              yellowCard |-> Flag(player, "yellowCard"),
              redCard |-> Flag(player, "redCard") ]
  IN  [ k \in 1..Len(idx) |-> seat(idx[k]) ]

\* App.tsx 193-219
teamBPositions(formationArg, playersArg, ov, vertical) ==
  LET playerPositionsB == calcPositions(formationArg)
      idx == SeatIndices(playersArg, playerPositionsB)
      seat(index) ==
        LET base == resolvePos(ov, index, playerPositionsB[index + 1])
            pos == IF vertical THEN [ x |-> mapX(base.x), y |-> mapYB(base.y) ] ELSE base
            player == playersArg[index + 1]
        IN  [ id |-> << "B", index >>, team |-> "B",
              number |-> player.number, name |-> player.name,
              x |-> round2(pos.x), y |-> round2(pos.y),
              yellowCard |-> Flag(player, "yellowCard"),
              redCard |-> Flag(player, "redCard") ]
  IN  [ k \in 1..Len(idx) |-> seat(idx[k]) ]

\* `teamLogoA ? { id, slug, country, englishName, svgUrl, pngUrl } : null`
\* (the two URL strings are derived from the logo record and left out)
logoData(teamLogo) ==
  IF IsSome(teamLogo)
    THEN Some([ id |-> TheVal(teamLogo).id,
                englishName |-> IF "englishName" \in DOMAIN TheVal(teamLogo)
                                  THEN Some(TheVal(teamLogo).englishName) ELSE None ])
    ELSE None

\* the message handed to electronAPI.broadcastPlayerCoordinates
\* (App.tsx 221-260, without the timestamp); a is the argument list of
\* broadcastCurrentPlayerPositions as a record
broadcastData(a) ==
  [ verticalMode |-> a.verticalMode,
    match |->
      [ scoreA |-> a.scoreA, scoreB |-> a.scoreB,
        elapsed |-> a.matchTime, status |-> a.matchStatus,
        teamA |-> [ name |-> IF a.teamNameA = "" THEN "Team A" ELSE a.teamNameA,
                    formation |-> a.formation.name,
                    logo |-> logoData(a.teamLogoA) ],
        teamB |-> [ name |-> IF a.teamNameB = "" THEN "Team B" ELSE a.teamNameB,
                    formation |-> a.formationB.name,
                    logo |-> logoData(a.teamLogoB) ] ],
    teams |->
      [ A |-> teamAPositions(a.formation, a.players, a.overrides, a.verticalMode),
        B |-> teamBPositions(a.formationB, a.playersB, a.overridesB, a.verticalMode) ] ]

\* the seats of team A as drawn: index and the left/top percentages
\* (App.tsx 1202-1214 in vertical mode, 1307-1315 in split mode)
renderSeatsA(formationArg, playersArg, ov, vertical) ==
  LET playerPositions == calcPositions(formationArg)
      idx == SeatIndices(playersArg, playerPositions)
      seat(index) ==
        LET pos == resolvePos(ov, index, playerPositions[index + 1])
        IN  IF vertical
              THEN [ index |-> index, left |-> mapX(pos.x), top |-> mapYA(pos.y) ]
              ELSE [ index |-> index, left |-> pos.x, top |-> pos.y ]
  IN  [ k \in 1..Len(idx) |-> seat(idx[k]) ]

\* App.tsx 1242-1255 in vertical mode, 1355-1363 in split mode
renderSeatsB(formationArg, playersArg, ov, vertical) ==
  LET playerPositionsB == calcPositions(formationArg)
      idx == SeatIndices(playersArg, playerPositionsB)
      seat(index) ==
        LET basePos == resolvePos(ov, index, playerPositionsB[index + 1])
        IN  IF vertical
              THEN [ index |-> index, left |-> mapX(basePos.x), top |-> mapYB(basePos.y) ]
              ELSE [ index |-> index, left |-> basePos.x, top |-> basePos.y ]
  IN  [ k \in 1..Len(idx) |-> seat(idx[k]) ]

(***************************************************************************)
(* State                                                                   *)
(***************************************************************************)
VARIABLES
  formation, players, uniformColor, teamNameA, teamLogoA, scoreA, overrides,
  formationB, playersB, uniformColorB, teamNameB, teamLogoB, scoreB, overridesB,
  verticalMode,
  selectedPlayer, editingPlayer, selectedPlayerB, editingPlayerB,
  apiKey, liveMatches, isLoadingMatches, selectedFixtureId, autoRefreshEnabled,
  draggingRef, draggingRefB, singleClickTimerRef, singleClickTimerRefB,
  broadcastTimerRef, refreshIntervalRef, isInitialMount,
  mounted,      \* the component has been mounted (first render + effects)
  timers,       \* pending window.setTimeout callbacks, oldest first
  intervals,    \* active window.setInterval callbacks
  inflight,     \* loadMatchLineup calls waiting for the feed's answer
  lastSent,     \* the last message given to broadcastPlayerCoordinates
  nSent,        \* how many messages were given to it
  lastNotice,   \* the last alert / console line of the feed code
  lastEvent,    \* the handler that ran last, with its input
  nEvents,      \* operator and feed events so far
  probe,        \* a pure function applied to an input: [op, in, out]
  savedFile     \* the lineup.json the operator last saved, None before

teamA == << formation, players, uniformColor, teamNameA, teamLogoA, scoreA, overrides >>
teamB == << formationB, playersB, uniformColorB, teamNameB, teamLogoB, scoreB, overridesB >>
dialogs == << selectedPlayer, editingPlayer, selectedPlayerB, editingPlayerB >>
feedState == << apiKey, liveMatches, isLoadingMatches, selectedFixtureId, autoRefreshEnabled >>
dragRefs == << draggingRef, draggingRefB >>
clickRefs == << singleClickTimerRef, singleClickTimerRefB >>
sink == << lastSent, nSent >>
vars == << teamA, teamB, verticalMode, dialogs, feedState, dragRefs, clickRefs,
           broadcastTimerRef, refreshIntervalRef, isInitialMount, mounted, timers,
           intervals, inflight, sink, lastNotice, lastEvent, nEvents, probe, savedFile >>

\* String(i + 1) and the default name of seat i (0-based); the source's
\* name literal is the Korean word for "player" followed by the number
DefaultNumber(i) == ToString(i + 1)
DefaultName(i) == "Player " \o ToString(i + 1)

\* App.tsx 275-339
Init ==
  /\ formation = [ name |-> S433, lines |-> << 1, 4, 3, 3 >> ]
  /\ players = [ k \in 1..11 |-> [ number |-> DefaultNumber(k - 1), name |-> DefaultName(k - 1) ] ]
  /\ uniformColor = "#2563eb"
  /\ teamNameA = ""
  /\ teamLogoA = None
  /\ formationB = [ name |-> S433, lines |-> << 1, 4, 3, 3 >> ]
  /\ playersB = [ k \in 1..11 |-> [ number |-> DefaultNumber(k - 1), name |-> DefaultName(k - 1) ] ]
  /\ uniformColorB = "#dc2626"
  /\ teamNameB = ""
  /\ teamLogoB = None
  /\ scoreA = 0
  /\ scoreB = 0
  /\ verticalMode = FALSE
  /\ selectedPlayer = None
  /\ editingPlayer = Some([ number |-> "", name |-> "", yellowCard |-> FALSE, redCard |-> FALSE ])
  /\ selectedPlayerB = None
  /\ editingPlayerB = Some([ number |-> "", name |-> "", yellowCard |-> FALSE, redCard |-> FALSE ])
  /\ apiKey = "stored-key"
  /\ liveMatches = << >>
  /\ isLoadingMatches = FALSE
  /\ selectedFixtureId = None
  /\ autoRefreshEnabled = FALSE
  /\ refreshIntervalRef = 0
  /\ draggingRef = None
  /\ draggingRefB = None
  /\ singleClickTimerRef = 0
  /\ singleClickTimerRefB = 0
  /\ broadcastTimerRef = 0
  /\ isInitialMount = TRUE
  /\ overrides = << >>
  /\ overridesB = << >>
  /\ mounted = FALSE
  /\ timers = << >>
  /\ intervals = << >>
  /\ inflight = << >>
  /\ lastSent = None
  /\ nSent = 0
  /\ lastNotice = "none"
  /\ lastEvent = [ name |-> "construct" ]
  /\ nEvents = 0
  /\ probe = [ op |-> "none" ]
  /\ savedFile = None

(***************************************************************************)
(* Timers.  A timer is [id, delay, ref, cb]: ref names the useRef cell     *)
(* that holds its id ("none" when the id is dropped) and cb is the         *)
(* callback with the values it closed over.  Ids are positive, so 0 in a   *)
(* ref is `null`.                                                          *)
(***************************************************************************)
TimerIds(ts) == { ts[i].id : i \in DOMAIN ts }

NewId(ts) ==
  LET used == TimerIds(ts) \cup TimerIds(timers)
  IN  CHOOSE n \in 1..(Cardinality(used) + 1) : n \notin used

setTimeout(ts, delay, ref, cb) ==
  Append(ts, [ id |-> NewId(ts), delay |-> delay, ref |-> ref, cb |-> cb ])

\* window.clearTimeout(id); the callers test the ref first, and 0 matches no id
clearTimeout(ts, id) == SelectSeq(ts, LAMBDA t : t.id # id)

LastId(ts) == ts[Len(ts)].id

\* Timers armed in the same task: the shorter delay is due first.  The
\* timers an action adds are placed after the ones that were pending, in
\* order of delay (and of creation for equal delays).
OrderNew(ts) ==
  LET old == SelectSeq(ts, LAMBDA t : t.id \in TimerIds(timers))
      new(d) == SelectSeq(ts, LAMBDA t : t.id \notin TimerIds(timers) /\ t.delay = d)
  IN  old \o new(0) \o new(100) \o new(250)

\* timers[i] may be the next to fire: nothing armed before it is due earlier
MayFire(i) == \A j \in 1..(i - 1) : timers[j].delay > timers[i].delay

\* the argument list of broadcastCurrentPlayerPositions
Args(f, fB, p, pB, ov, ovB, vm, sA, sB, nA, nB, lA, lB, mt, ms) ==
  [ formation |-> f, formationB |-> fB, players |-> p, playersB |-> pB,
    overrides |-> ov, overridesB |-> ovB, verticalMode |-> vm,
    scoreA |-> sA, scoreB |-> sB, teamNameA |-> nA, teamNameB |-> nB,
    teamLogoA |-> lA, teamLogoB |-> lB, matchTime |-> mt, matchStatus |-> ms ]

\* the state cells as a render sees them, passed with null time and status
CurArgs ==
  Args(formation, formationB, players, playersB, overrides, overridesB, verticalMode,
       scoreA, scoreB, teamNameA, teamNameB, teamLogoA, teamLogoB, None, None)

BroadcastCb(a) == [ kind |-> "broadcast", args |-> a ]

(***************************************************************************)
(* Effects.  Each action ends with RunEffects: the handler's own timers    *)
(* ts and broadcast ref b, then the effects whose dependencies the commit  *)
(* changed, in declaration order.  playersSet / liveSet say that the       *)
(* handler stored a new array in players or playersB / in liveMatches      *)
(* (a new identity, whatever its content).                                 *)
(***************************************************************************)
\* useEffect [players, playersB] (App.tsx 390-417) and
\* useEffect [scoreA, scoreB] (App.tsx 459-489): the same debounced send
DebounceEffect(ts, b, a) ==
  setTimeout(IF b # 0 THEN clearTimeout(ts, b) ELSE ts, 100, "broadcast", BroadcastCb(a))

\* a name effect that waits like the debounced send
NameEffect_debounced(ts, a) == setTimeout(ts, 100, "broadcast", BroadcastCb(a))

\* useEffect [teamNameA, teamNameB] (App.tsx 431-456)
NameEffect(ts, a) == setTimeout(ts, 0, "none", BroadcastCb(a))

\* the values the interval callback of App.tsx 938-950 closes over,
\* loadMatchLineup's own captures included
IntervalClosure ==
  [ selectedFixtureId |-> selectedFixtureId, liveMatches |-> liveMatches,
    apiKey |-> apiKey, overrides |-> overrides, overridesB |-> overridesB,
    verticalMode |-> verticalMode ]

RefreshWanted == autoRefreshEnabled /\ IsSome(selectedFixtureId) /\ apiKey # ""

NewIntervalId(is) ==
  LET used == { is[i].id : i \in DOMAIN is }
  IN  CHOOSE n \in 1..(Cardinality(used) + 1) : n \notin used

clearInterval(is, id) == SelectSeq(is, LAMBDA t : t.id # id)

\* the interval effect without the cleanup of its previous run
RefreshEffect_noCleanup(is, r, liveSet) ==
  LET changed == \/ liveSet
                 \/ << autoRefreshEnabled, selectedFixtureId, apiKey >>'
                      # << autoRefreshEnabled, selectedFixtureId, apiKey >>
      id == NewIntervalId(is)
  IN  IF changed /\ RefreshWanted'
        THEN /\ intervals' = Append(is, [ id |-> id, closure |-> IntervalClosure' ])
             /\ refreshIntervalRef' = id
        ELSE intervals' = is /\ refreshIntervalRef' = r

\* useEffect [autoRefreshEnabled, selectedFixtureId, apiKey, liveMatches]
\* (App.tsx 935-960); is/r are the intervals and the ref the handler left
RefreshEffect(is, r, liveSet) ==
  LET changed == \/ liveSet
                 \/ << autoRefreshEnabled, selectedFixtureId, apiKey >>'
                      # << autoRefreshEnabled, selectedFixtureId, apiKey >>
      \* the cleanup returned by the previous run, if that run armed an interval
      is1 == IF RefreshWanted /\ r # 0 THEN clearInterval(is, r) ELSE is
      r1 == IF RefreshWanted THEN 0 ELSE r
      id == NewIntervalId(is1)
  IN  IF ~changed
        THEN intervals' = is /\ refreshIntervalRef' = r
        ELSE IF RefreshWanted'
          THEN /\ intervals' = Append(is1, [ id |-> id, closure |-> IntervalClosure' ])
               /\ refreshIntervalRef' = id
          ELSE intervals' = is1 /\ refreshIntervalRef' = r1

TimerEffects(ts, b, playersSet) ==
  LET nameChg == << teamNameA, teamNameB >>' # << teamNameA, teamNameB >>
      scoreChg == << scoreA, scoreB >>' # << scoreA, scoreB >>
      t1 == IF playersSet /\ ~isInitialMount THEN DebounceEffect(ts, b, CurArgs') ELSE ts
      b1 == IF playersSet /\ ~isInitialMount THEN LastId(t1) ELSE b
      t2 == IF nameChg /\ ~isInitialMount THEN NameEffect(t1, CurArgs') ELSE t1
      t3 == IF scoreChg /\ ~isInitialMount THEN DebounceEffect(t2, b1, CurArgs') ELSE t2
      b3 == IF scoreChg /\ ~isInitialMount THEN LastId(t3) ELSE b1
  IN  /\ timers' = OrderNew(t3)
      /\ broadcastTimerRef' = b3
      /\ isInitialMount' = (isInitialMount /\ ~scoreChg)

RunEffects(ts, b, playersSet, is, r, liveSet) ==
  /\ RefreshEffect(is, r, liveSet)
  /\ TimerEffects(ts, b, playersSet)

\* a handler that arms no timer itself and leaves the intervals alone
PlainEffects(playersSet) ==
  RunEffects(timers, broadcastTimerRef, playersSet, intervals, refreshIntervalRef, FALSE)

Event(e) == lastEvent' = e /\ nEvents' = nEvents + 1

\* a first run of the effects that takes the debounced send
Mount_emits ==
  /\ ~mounted
  /\ mounted' = TRUE
  /\ isInitialMount' = FALSE
  /\ lastEvent' = [ name |-> "mount" ]
  /\ timers' = DebounceEffect(timers, broadcastTimerRef, CurArgs)
  /\ broadcastTimerRef' = LastId(timers')
  /\ UNCHANGED << teamA, teamB, verticalMode, dialogs, feedState, dragRefs, clickRefs,
                  refreshIntervalRef, intervals, inflight, sink, lastNotice, nEvents, probe, savedFile >>

\* first render: the three broadcast effects run with isInitialMount set,
\* the last of them clears it (App.tsx 392, 433, 461-464); the refresh
\* effect finds auto-refresh disabled
Mount ==
  /\ ~mounted
  /\ mounted' = TRUE
  /\ isInitialMount' = FALSE
  /\ lastEvent' = [ name |-> "mount" ]
  /\ UNCHANGED << teamA, teamB, verticalMode, dialogs, feedState, dragRefs, clickRefs,
                  broadcastTimerRef, refreshIntervalRef, timers, intervals, inflight,
                  sink, lastNotice, nEvents, probe, savedFile >>

(***************************************************************************)
(* Pointer / drag handlers                                                 *)
(***************************************************************************)
\* getBoundingClientRect() of the players container behind fieldRef and
\* fieldRefB (client pixels); in vertical mode only fieldRef is mounted
fieldRect == [ left |-> 40, top |-> 120, width |-> 400, height |-> 600 ]
fieldRectB == [ left |-> 520, top |-> 120, width |-> 400, height |-> 600 ]

\* App.tsx 965-975
toPercent(clientX, clientY, rect) ==
  [ x |-> clamp01(Times(Over(Minus(clientX, Num(rect.left)), Num(rect.width)), Num(100))),
    y |-> clamp01(Times(Over(Minus(clientY, Num(rect.top)), Num(rect.height)), Num(100))) ]

\* centre of a seat element: `left: x%, top: y%` inside the container,
\* shifted by half its size (translate -50%)
SeatCenter(seat, rect) ==
  [ x |-> Plus(Num(rect.left), Times(Over(seat.left, Num(100)), Num(rect.width))),
    y |-> Plus(Num(rect.top), Times(Over(seat.top, Num(100)), Num(rect.height))) ]

SeatOf(seats, index) == CHOOSE st \in Range(seats) : st.index = index
Rendered(seats, index) == \E st \in Range(seats) : st.index = index

SeatsA == renderSeatsA(formation, players, overrides, verticalMode)
SeatsB == renderSeatsB(formationB, playersB, overridesB, verticalMode)

\* `{ ...prev, [index]: pos }`
WithOverride(prev, index, pos) ==
  [ i \in (DOMAIN prev) \cup { index } |-> IF i = index THEN pos ELSE prev[i] ]

\* App.tsx 977-990; (gx, gy) is where inside the seat the pointer went down,
\* relative to the seat's centre
onPointerDown(index, gx, gy) ==
  /\ mounted /\ draggingRef = None /\ Rendered(SeatsA, index)
  /\ LET c == SeatCenter(SeatOf(SeatsA, index), fieldRect)
     IN  draggingRef' = Some([ index |-> index,
                               startX |-> Plus(c.x, Num(gx)), startY |-> Plus(c.y, Num(gy)),
                               moved |-> FALSE,
                               pointerOffsetX |-> Num(gx), pointerOffsetY |-> Num(gy) ])
  /\ Event([ name |-> "onPointerDown", index |-> index ])
  /\ UNCHANGED << teamA, teamB, verticalMode, dialogs, feedState, draggingRefB, clickRefs,
                  broadcastTimerRef, refreshIntervalRef, isInitialMount, mounted, timers,
                  intervals, inflight, sink, lastNotice, probe, savedFile >>

\* the `moved` flag after a move by (dx, dy) from the press point (App.tsx 997)
movedAfter(dr, dx, dy) == dr.moved \/ HypotExceeds(dx, dy, MOVEMENT_THRESHOLD)

\* the override a move stores (App.tsx 999-1009); p is toPercent's result
storedPosA(dr, p, vertical, prev) ==
  WithOverride(prev, dr.index, IF vertical THEN [ x |-> p.x, y |-> halfYA(p.y) ] ELSE p)

\* App.tsx 992-1010; the pointer is (dx, dy) pixels away from the press point
onPointerMove(dx, dy) ==
  /\ IsSome(draggingRef) /\ Rendered(SeatsA, TheVal(draggingRef).index)
  /\ Event([ name |-> "onPointerMove", dx |-> dx, dy |-> dy ])
  /\ UNCHANGED << formation, players, uniformColor, teamNameA, teamLogoA, scoreA, teamB,
                  verticalMode, dialogs, feedState, draggingRefB, clickRefs, mounted,
                  inflight, sink, lastNotice, probe, savedFile >>
  /\ LET dr0 == TheVal(draggingRef)
         dr == [ dr0 EXCEPT !.moved = movedAfter(dr0, dx, dy) ]
         clientX == Plus(dr.startX, Num(dx))
         clientY == Plus(dr.startY, Num(dy))
         p == toPercent(Minus(clientX, dr.pointerOffsetX), Minus(clientY, dr.pointerOffsetY),
                        fieldRect)
     IN  /\ draggingRef' = Some(dr)
         /\ overrides' = storedPosA(dr, p, verticalMode, overrides)
  /\ PlainEffects(FALSE)

ClickCb(team, index, roster) ==
  [ kind |-> "click", team |-> team, index |-> index, players |-> roster ]

\* UIEvent.detail of the click a release makes: 2 when the release is
\* unmoved and the delayed click of the same seat is still pending (the
\* browser then sends dblclick to the seat, App.tsx 1219, 1260, 1320, 1368)
ClickCount(dr, ts, clickRef) ==
  IF /\ ~dr.moved
     /\ \E i \in DOMAIN ts : /\ ts[i].id = clickRef
                              /\ ts[i].cb.kind = "click"
                              /\ ts[i].cb.index = dr.index
    THEN 2 ELSE 1

\* what pointer-up arms (App.tsx 1018-1031): the timers and the two refs
\* << timers, singleClickTimerRef, broadcastTimerRef >> afterwards
pointerUpTimers_alwaysClick(dr, ts, clickRef, bRef, team) ==
  LET t1 == setTimeout(IF clickRef # 0 THEN clearTimeout(ts, clickRef) ELSE ts, 250,
                       IF team = "A" THEN "clickA" ELSE "clickB",
                       ClickCb(team, dr.index, IF team = "A" THEN players ELSE playersB))
  IN  << t1, LastId(t1), bRef >>

\* a release that arms the click after a short gesture and nothing after a drag
pointerUpTimers_noBroadcast(dr, ts, clickRef, bRef, team) ==
  IF ~dr.moved
    THEN LET t1 == setTimeout(IF clickRef # 0 THEN clearTimeout(ts, clickRef) ELSE ts, 250,
                              IF team = "A" THEN "clickA" ELSE "clickB",
                              ClickCb(team, dr.index, IF team = "A" THEN players ELSE playersB))
         IN  << t1, LastId(t1), bRef >>
    ELSE << ts, clickRef, bRef >>

pointerUpTimers(dr, ts, clickRef, bRef, team) ==
  IF ~dr.moved
    THEN LET t1 == setTimeout(IF clickRef # 0 THEN clearTimeout(ts, clickRef) ELSE ts, 250,
                              IF team = "A" THEN "clickA" ELSE "clickB",
                              ClickCb(team, dr.index, IF team = "A" THEN players ELSE playersB))
         IN  << t1, LastId(t1), bRef >>
    ELSE LET t1 == setTimeout(IF bRef # 0 THEN clearTimeout(ts, bRef) ELSE ts, 100,
                              "broadcast", BroadcastCb(CurArgs))
         IN  << t1, clickRef, LastId(t1) >>

\* App.tsx 1012-1032 (also bound to onPointerCancel)
onPointerUp ==
  /\ IsSome(draggingRef)
  /\ draggingRef' = None
  /\ LET r == pointerUpTimers(TheVal(draggingRef), timers, singleClickTimerRef,
                              broadcastTimerRef, "A")
     IN  /\ timers' = OrderNew(r[1])
         /\ singleClickTimerRef' = r[2]
         /\ broadcastTimerRef' = r[3]
  /\ Event([ name |-> "onPointerUp", moved |-> TheVal(draggingRef).moved,
             index |-> TheVal(draggingRef).index,
             clicks |-> ClickCount(TheVal(draggingRef), timers, singleClickTimerRef) ])
  /\ UNCHANGED << teamA, teamB, verticalMode, dialogs, feedState, draggingRefB,
                  singleClickTimerRefB, refreshIntervalRef, isInitialMount, mounted,
                  intervals, inflight, sink, lastNotice, probe, savedFile >>

\* App.tsx 1034-1047
onPointerDownB(index, gx, gy) ==
  /\ mounted /\ draggingRefB = None /\ Rendered(SeatsB, index)
  /\ LET c == SeatCenter(SeatOf(SeatsB, index), IF verticalMode THEN fieldRect ELSE fieldRectB)
     IN  draggingRefB' = Some([ index |-> index,
                                startX |-> Plus(c.x, Num(gx)), startY |-> Plus(c.y, Num(gy)),
                                moved |-> FALSE,
                                pointerOffsetX |-> Num(gx), pointerOffsetY |-> Num(gy) ])
  /\ Event([ name |-> "onPointerDownB", index |-> index ])
  /\ UNCHANGED << teamA, teamB, verticalMode, dialogs, feedState, draggingRef, clickRefs,
                  broadcastTimerRef, refreshIntervalRef, isInitialMount, mounted, timers,
                  intervals, inflight, sink, lastNotice, probe, savedFile >>

storedPosB(dr, p, vertical, prev) ==
  WithOverride(prev, dr.index, IF vertical THEN [ x |-> p.x, y |-> halfYB(p.y) ] ELSE p)

\* a move of team B's drag that stores into team A's map
onPointerMoveB_sharedMap(dx, dy) ==
  /\ IsSome(draggingRefB) /\ Rendered(SeatsB, TheVal(draggingRefB).index)
  /\ Event([ name |-> "onPointerMoveB", dx |-> dx, dy |-> dy ])
  /\ UNCHANGED << formation, players, uniformColor, teamNameA, teamLogoA, scoreA, teamB,
                  verticalMode, dialogs, feedState, draggingRef, clickRefs, mounted,
                  inflight, sink, lastNotice, probe, savedFile >>
  /\ LET dr0 == TheVal(draggingRefB)
         dr == [ dr0 EXCEPT !.moved = movedAfter(dr0, dx, dy) ]
         clientX == Plus(dr.startX, Num(dx))
         clientY == Plus(dr.startY, Num(dy))
         p == toPercent(Minus(clientX, dr.pointerOffsetX), Minus(clientY, dr.pointerOffsetY),
                        IF verticalMode THEN fieldRect ELSE fieldRectB)
     IN  /\ draggingRefB' = Some(dr)
         /\ overrides' = storedPosB(dr, p, verticalMode, overrides)
  /\ PlainEffects(FALSE)

\* App.tsx 1049-1067
onPointerMoveB(dx, dy) ==
  /\ IsSome(draggingRefB) /\ Rendered(SeatsB, TheVal(draggingRefB).index)
  /\ Event([ name |-> "onPointerMoveB", dx |-> dx, dy |-> dy ])
  /\ UNCHANGED << teamA, formationB, playersB, uniformColorB, teamNameB, teamLogoB, scoreB,
                  verticalMode, dialogs, feedState, draggingRef, clickRefs, mounted,
                  inflight, sink, lastNotice, probe, savedFile >>
  /\ LET dr0 == TheVal(draggingRefB)
         dr == [ dr0 EXCEPT !.moved = movedAfter(dr0, dx, dy) ]
         clientX == Plus(dr.startX, Num(dx))
         clientY == Plus(dr.startY, Num(dy))
         p == toPercent(Minus(clientX, dr.pointerOffsetX), Minus(clientY, dr.pointerOffsetY),
                        IF verticalMode THEN fieldRect ELSE fieldRectB)
     IN  /\ draggingRefB' = Some(dr)
         /\ overridesB' = storedPosB(dr, p, verticalMode, overridesB)
  /\ PlainEffects(FALSE)

\* App.tsx 1069-1089 (also bound to onPointerCancel)
onPointerUpB ==
  /\ IsSome(draggingRefB)
  /\ draggingRefB' = None
  /\ LET r == pointerUpTimers(TheVal(draggingRefB), timers, singleClickTimerRefB,
                              broadcastTimerRef, "B")
     IN  /\ timers' = OrderNew(r[1])
         /\ singleClickTimerRefB' = r[2]
         /\ broadcastTimerRef' = r[3]
  /\ Event([ name |-> "onPointerUpB", moved |-> TheVal(draggingRefB).moved,
             index |-> TheVal(draggingRefB).index,
             clicks |-> ClickCount(TheVal(draggingRefB), timers, singleClickTimerRefB) ])
  /\ UNCHANGED << teamA, teamB, verticalMode, dialogs, feedState, draggingRef,
                  singleClickTimerRef, refreshIntervalRef, isInitialMount, mounted,
                  intervals, inflight, sink, lastNotice, probe, savedFile >>

(***************************************************************************)
(* Timer callbacks                                                         *)
(***************************************************************************)
\* `players[index]` of handlePlayerClick (App.tsx 674-682); undefined when
\* the roster the callback closed over has no such seat
PlayerAt(roster, index) == IF index + 1 <= Len(roster) THEN Some(roster[index + 1]) ELSE None

\* a setTimeout callback runs: a broadcast (App.tsx 396-416, 436-455, 468-488,
\* 637-639, 892-899, 1027-1030, 1123-1125) or a delayed single click
\* (App.tsx 1020-1023, 1077-1080)
TimerFires(i) ==
  /\ i \in DOMAIN timers /\ MayFire(i)
  /\ LET t == timers[i]
     IN  /\ timers' = RemoveAt(timers, i)
         /\ broadcastTimerRef' = IF t.ref = "broadcast" THEN 0 ELSE broadcastTimerRef
         /\ singleClickTimerRef' = IF t.ref = "clickA" THEN 0 ELSE singleClickTimerRef
         /\ singleClickTimerRefB' = IF t.ref = "clickB" THEN 0 ELSE singleClickTimerRefB
         /\ IF t.cb.kind = "broadcast"
              THEN /\ lastSent' = Some(broadcastData(t.cb.args))
                   /\ nSent' = nSent + 1
                   /\ UNCHANGED dialogs
              ELSE /\ UNCHANGED sink
                   /\ IF t.cb.team = "A"
                        THEN /\ selectedPlayer' = Some(t.cb.index)
                             /\ editingPlayer' = PlayerAt(t.cb.players, t.cb.index)
                             /\ UNCHANGED << selectedPlayerB, editingPlayerB >>
                        ELSE /\ selectedPlayerB' = Some(t.cb.index)
                             /\ editingPlayerB' = PlayerAt(t.cb.players, t.cb.index)
                             /\ UNCHANGED << selectedPlayer, editingPlayer >>
         /\ lastEvent' = [ name |-> "timer", kind |-> t.cb.kind, ref |-> t.ref, delay |-> t.delay ]
  /\ UNCHANGED << teamA, teamB, verticalMode, feedState, dragRefs, refreshIntervalRef,
                  isInitialMount, mounted, intervals, inflight, lastNotice, nEvents, probe, savedFile >>

\* a double click that opens the dialog and leaves the delayed click armed
onDoubleClick_keepsTimer(index) ==
  /\ mounted
  /\ lastEvent.name = "onPointerUp" /\ lastEvent.clicks = 2 /\ lastEvent.index = index
  /\ Event([ name |-> "onDoubleClick", index |-> index ])
  /\ UNCHANGED << teamA, teamB, verticalMode, selectedPlayerB, editingPlayerB, feedState,
                  dragRefs, clickRefs, mounted, inflight, sink, lastNotice,
                  probe, savedFile >>
  /\ selectedPlayer' = Some(index)
  /\ editingPlayer' = PlayerAt(players, index)
  /\ PlainEffects(FALSE)

\* onDoubleClick of a seat of team A (App.tsx 1219-1225, 1320-1326), sent
\* by the browser right after the second click
onDoubleClick(index) ==
  /\ mounted
  /\ lastEvent.name = "onPointerUp" /\ lastEvent.clicks = 2 /\ lastEvent.index = index
  /\ Event([ name |-> "onDoubleClick", index |-> index ])
  /\ UNCHANGED << teamA, teamB, verticalMode, selectedPlayerB, editingPlayerB, feedState,
                  dragRefs, singleClickTimerRefB, mounted, inflight, sink, lastNotice,
                  probe, savedFile >>
  /\ singleClickTimerRef' = 0
  /\ selectedPlayer' = Some(index)
  /\ editingPlayer' = PlayerAt(players, index)
  /\ RunEffects(IF singleClickTimerRef # 0 THEN clearTimeout(timers, singleClickTimerRef)
                ELSE timers,
                broadcastTimerRef, FALSE, intervals, refreshIntervalRef, FALSE)

\* App.tsx 1260-1266, 1368-1374
onDoubleClickB(index) ==
  /\ mounted
  /\ lastEvent.name = "onPointerUpB" /\ lastEvent.clicks = 2 /\ lastEvent.index = index
  /\ Event([ name |-> "onDoubleClickB", index |-> index ])
  /\ UNCHANGED << teamA, teamB, verticalMode, selectedPlayer, editingPlayer, feedState,
                  dragRefs, singleClickTimerRef, mounted, inflight, sink, lastNotice,
                  probe, savedFile >>
  /\ singleClickTimerRefB' = 0
  /\ selectedPlayerB' = Some(index)
  /\ editingPlayerB' = PlayerAt(playersB, index)
  /\ RunEffects(IF singleClickTimerRefB # 0 THEN clearTimeout(timers, singleClickTimerRefB)
                ELSE timers,
                broadcastTimerRef, FALSE, intervals, refreshIntervalRef, FALSE)

(***************************************************************************)
(* Editing handlers                                                        *)
(***************************************************************************)
\* a mode button that stores the positions as the new mode draws them
toggleVerticalMode_writesBack ==
  /\ mounted
  /\ Event([ name |-> "toggleVerticalMode" ])
  /\ UNCHANGED << formation, players, uniformColor, teamNameA, teamLogoA, scoreA, teamB,
                  dialogs, feedState, dragRefs, clickRefs, mounted,
                  inflight, sink, lastNotice, probe, savedFile >>
  /\ LET newVerticalMode == ~verticalMode
         a == [ CurArgs EXCEPT !.verticalMode = newVerticalMode ]
     IN  /\ verticalMode' = newVerticalMode
         /\ overrides' = [ i \in DOMAIN overrides |->
                             IF newVerticalMode
                               THEN [ x |-> mapX(overrides[i].x), y |-> mapYA(overrides[i].y) ]
                               ELSE overrides[i] ]
         /\ RunEffects(setTimeout(timers, 0, "none", BroadcastCb(a)), broadcastTimerRef,
                       FALSE, intervals, refreshIntervalRef, FALSE)

\* the mode button (App.tsx 1119-1126)
toggleVerticalMode ==
  /\ mounted
  /\ Event([ name |-> "toggleVerticalMode" ])
  /\ UNCHANGED << teamA, teamB, dialogs, feedState, dragRefs, clickRefs, mounted,
                  inflight, sink, lastNotice, probe, savedFile >>
  /\ LET newVerticalMode == ~verticalMode
         a == [ CurArgs EXCEPT !.verticalMode = newVerticalMode ]
     IN  /\ verticalMode' = newVerticalMode
         /\ RunEffects(setTimeout(timers, 0, "none", BroadcastCb(a)), broadcastTimerRef,
                       FALSE, intervals, refreshIntervalRef, FALSE)

\* a resize that leaves out the last seat
ResizedRoster_oneShort(old, newTotal) ==
  [ k \in 1..(newTotal - 1) |->
      [ number |-> IF k <= Len(old) /\ old[k].number # "" THEN old[k].number
                   ELSE DefaultNumber(k - 1),
        name |-> IF k <= Len(old) /\ old[k].name # "" THEN old[k].name
                 ELSE DefaultName(k - 1) ] ]

ResizedRoster_allDefaults(old, newTotal) ==
  [ k \in 1..newTotal |-> [ number |-> DefaultNumber(k - 1), name |-> DefaultName(k - 1) ] ]

\* `players[i]?.number || String(i + 1)` and the same for the name
ResizedRoster(old, newTotal) ==
  [ k \in 1..newTotal |->
      [ number |-> IF k <= Len(old) /\ old[k].number # "" THEN old[k].number
                   ELSE DefaultNumber(k - 1),
        name |-> IF k <= Len(old) /\ old[k].name # "" THEN old[k].name
                 ELSE DefaultName(k - 1) ] ]

\* newFormation.lines.reduce((sum, line) => sum + line, 0)
LinesTotal(lines) == SumSeq(lines)

\* App.tsx 626-640, called by FormationEditor's handleFormation
\* (FormationEditor.tsx 46-49) with an entry of FORMATIONS_FE
updatePlayersForFormation(newFormation) ==
  /\ mounted /\ newFormation.name # formation.name
  /\ Event([ name |-> "updatePlayersForFormation", formation |-> newFormation.name ])
  /\ UNCHANGED << uniformColor, teamNameA, teamLogoA, scoreA, teamB, verticalMode, dialogs,
                  feedState, dragRefs, clickRefs, mounted, inflight, sink, lastNotice, probe, savedFile >>
  /\ LET newPlayers == ResizedRoster(players, LinesTotal(newFormation.lines))
         a == Args(newFormation, formationB, newPlayers, playersB, << >>, overridesB,
                   verticalMode, scoreA, scoreB, teamNameA, teamNameB, teamLogoA, teamLogoB,
                   None, None)
     IN  /\ players' = newPlayers
         /\ formation' = newFormation
         /\ overrides' = << >>
         /\ RunEffects(setTimeout(timers, 0, "none", BroadcastCb(a)), broadcastTimerRef,
                       TRUE, intervals, refreshIntervalRef, FALSE)

\* App.tsx 642-656
updatePlayersForFormationB(newFormation) ==
  /\ mounted /\ newFormation.name # formationB.name
  /\ Event([ name |-> "updatePlayersForFormationB", formation |-> newFormation.name ])
  /\ UNCHANGED << teamA, uniformColorB, teamNameB, teamLogoB, scoreB, verticalMode, dialogs,
                  feedState, dragRefs, clickRefs, mounted, inflight, sink, lastNotice, probe, savedFile >>
  /\ LET newPlayers == ResizedRoster(playersB, LinesTotal(newFormation.lines))
         a == Args(formation, newFormation, players, newPlayers, overrides, << >>,
                   verticalMode, scoreA, scoreB, teamNameA, teamNameB, teamLogoA, teamLogoB,
                   None, None)
     IN  /\ playersB' = newPlayers
         /\ formationB' = newFormation
         /\ overridesB' = << >>
         /\ RunEffects(setTimeout(timers, 0, "none", BroadcastCb(a)), broadcastTimerRef,
                       TRUE, intervals, refreshIntervalRef, FALSE)

\* ScoreDraggable.tsx 17: min = 0, max = 9
SCORE_MIN == 0
SCORE_MAX == 9
clamp(n, lo, hi) == IF n < lo THEN lo ELSE IF n > hi THEN hi ELSE n

\* the - / + buttons of the score control (ScoreDraggable.tsx 64-66) with
\* onChange = setScoreA (App.tsx 1174); step is -1 or +1
setScoreA(step) ==
  /\ mounted
  /\ Event([ name |-> "setScoreA", step |-> step ])
  /\ UNCHANGED << formation, players, uniformColor, teamNameA, teamLogoA, overrides, teamB,
                  verticalMode, dialogs, feedState, dragRefs, clickRefs, mounted, inflight,
                  sink, lastNotice, probe, savedFile >>
  /\ scoreA' = clamp(scoreA + step, SCORE_MIN, SCORE_MAX)
  /\ PlainEffects(FALSE)

\* App.tsx 1176
setScoreB(step) ==
  /\ mounted
  /\ Event([ name |-> "setScoreB", step |-> step ])
  /\ UNCHANGED << teamA, formationB, playersB, uniformColorB, teamNameB, teamLogoB,
                  overridesB, verticalMode, dialogs, feedState, dragRefs, clickRefs, mounted,
                  inflight, sink, lastNotice, probe, savedFile >>
  /\ scoreB' = clamp(scoreB + step, SCORE_MIN, SCORE_MAX)
  /\ PlainEffects(FALSE)

\* `team.englishName ?? team.slug ?? ''`
CatalogName(team) ==
  IF "englishName" \in DOMAIN team THEN team.englishName
  ELSE IF "slug" \in DOMAIN team THEN team.slug ELSE ""

\* the team-selected message of the catalog popup (App.tsx 366-383)
onMessage(team, target) ==
  /\ mounted
  /\ Event([ name |-> "onMessage", target |-> target ])
  /\ UNCHANGED << formation, players, uniformColor, scoreA, overrides, formationB, playersB,
                  uniformColorB, scoreB, overridesB, verticalMode, dialogs, feedState,
                  dragRefs, clickRefs, mounted, inflight, sink, lastNotice, probe, savedFile >>
  /\ IF target = "A"
       THEN /\ teamNameA' = CatalogName(team)
            /\ teamLogoA' = Some(team)
            /\ UNCHANGED << teamNameB, teamLogoB >>
       ELSE /\ teamNameB' = CatalogName(team)
            /\ teamLogoB' = Some(team)
            /\ UNCHANGED << teamNameA, teamLogoA >>
  /\ PlainEffects(FALSE)

\* App.tsx 658-664, called by the name input of FormationEditor
\* (FormationEditor.tsx 116) with `{ ...player, name: value }`
handlePlayerChange(index, value) ==
  /\ mounted /\ index + 1 <= Len(players)
  /\ Event([ name |-> "handlePlayerChange", index |-> index ])
  /\ UNCHANGED << formation, uniformColor, teamNameA, teamLogoA, scoreA, overrides, teamB,
                  verticalMode, dialogs, feedState, dragRefs, clickRefs, mounted, inflight,
                  sink, lastNotice, probe, savedFile >>
  /\ players' = [ players EXCEPT ![index + 1] = [ players[index + 1] EXCEPT !.name = value ] ]
  /\ PlainEffects(TRUE)

\* App.tsx 666-672
handlePlayerChangeB(index, value) ==
  /\ mounted /\ index + 1 <= Len(playersB)
  /\ Event([ name |-> "handlePlayerChangeB", index |-> index ])
  /\ UNCHANGED << teamA, formationB, uniformColorB, teamNameB, teamLogoB, scoreB, overridesB,
                  verticalMode, dialogs, feedState, dragRefs, clickRefs, mounted, inflight,
                  sink, lastNotice, probe, savedFile >>
  /\ playersB' = [ playersB EXCEPT ![index + 1] = [ playersB[index + 1] EXCEPT !.name = value ] ]
  /\ PlainEffects(TRUE)

\* { ...player, [field]: value }
WithField(player, field, value) ==
  [ k \in DOMAIN player \cup { field } |-> IF k = field THEN value ELSE player[k] ]

\* the yellow button of the edit dialog (App.tsx 1428, 1484): the spread
\* with yellowCard negated; redCard is cleared only when yellowCard was set
toggledYellow(player) ==
  LET p1 == WithField(player, "yellowCard", ~Flag(player, "yellowCard"))
  IN  IF Flag(player, "yellowCard") THEN WithField(p1, "redCard", FALSE) ELSE p1

\* the red button (App.tsx 1444, 1500)
toggledRed(player) ==
  LET p1 == WithField(player, "redCard", ~Flag(player, "redCard"))
  IN  IF Flag(player, "redCard") THEN WithField(p1, "yellowCard", FALSE) ELSE p1

\* a card button of team A's dialog, shown while selectedPlayer is not null
\* (App.tsx 1408, 1425-1456)
toggleCard(card) ==
  /\ mounted /\ IsSome(selectedPlayer) /\ IsSome(editingPlayer)
  /\ Event([ name |-> "toggleCard", card |-> card ])
  /\ UNCHANGED << teamA, teamB, verticalMode, selectedPlayer, selectedPlayerB, editingPlayerB,
                  feedState, dragRefs, clickRefs, mounted, inflight, sink, lastNotice,
                  probe, savedFile >>
  /\ editingPlayer' = Some(IF card = "yellow" THEN toggledYellow(TheVal(editingPlayer))
                                               ELSE toggledRed(TheVal(editingPlayer)))
  /\ PlainEffects(FALSE)

\* team B's dialog (App.tsx 1464, 1481-1512)
toggleCardB(card) ==
  /\ mounted /\ IsSome(selectedPlayerB) /\ IsSome(editingPlayerB)
  /\ Event([ name |-> "toggleCardB", card |-> card ])
  /\ UNCHANGED << teamA, teamB, verticalMode, selectedPlayer, editingPlayer, selectedPlayerB,
                  feedState, dragRefs, clickRefs, mounted, inflight, sink, lastNotice,
                  probe, savedFile >>
  /\ editingPlayerB' = Some(IF card = "yellow" THEN toggledYellow(TheVal(editingPlayerB))
                                                ELSE toggledRed(TheVal(editingPlayerB)))
  /\ PlainEffects(FALSE)

\* an array element that was never written
Hole == [ hole |-> TRUE ]

\* `next = [...prev]; next[index] = player` (App.tsx 660-662, 668-670): a
\* write past the end lengthens the array and leaves holes in between
WriteAt(prev, index, player) ==
  [ k \in 1..(IF index + 1 > Len(prev) THEN index + 1 ELSE Len(prev)) |->
      IF k = index + 1 THEN player ELSE IF k <= Len(prev) THEN prev[k] ELSE Hole ]

\* the save button of team A's dialog (App.tsx 684-689, 1459)
handleSavePlayer ==
  /\ mounted /\ IsSome(selectedPlayer) /\ IsSome(editingPlayer)
  /\ Event([ name |-> "handleSavePlayer", index |-> TheVal(selectedPlayer) ])
  /\ UNCHANGED << formation, uniformColor, teamNameA, teamLogoA, scoreA, overrides, teamB,
                  verticalMode, editingPlayer, selectedPlayerB, editingPlayerB, feedState,
                  dragRefs, clickRefs, mounted, inflight, sink, lastNotice, probe, savedFile >>
  /\ players' = WriteAt(players, TheVal(selectedPlayer), TheVal(editingPlayer))
  /\ selectedPlayer' = None
  /\ PlainEffects(TRUE)

\* App.tsx 691-696, 1515
handleSavePlayerB ==
  /\ mounted /\ IsSome(selectedPlayerB) /\ IsSome(editingPlayerB)
  /\ Event([ name |-> "handleSavePlayerB", index |-> TheVal(selectedPlayerB) ])
  /\ UNCHANGED << teamA, formationB, uniformColorB, teamNameB, teamLogoB, scoreB, overridesB,
                  verticalMode, selectedPlayer, editingPlayer, editingPlayerB, feedState,
                  dragRefs, clickRefs, mounted, inflight, sink, lastNotice, probe, savedFile >>
  /\ playersB' = WriteAt(playersB, TheVal(selectedPlayerB), TheVal(editingPlayerB))
  /\ selectedPlayerB' = None
  /\ PlainEffects(TRUE)

\* a swap that empties both override maps
handleSwapTeams_clears ==
  /\ mounted
  /\ Event([ name |-> "handleSwapTeams" ])
  /\ UNCHANGED << scoreA, scoreB, verticalMode, dialogs, feedState, dragRefs, clickRefs,
                  mounted, inflight, sink, lastNotice, probe, savedFile >>
  /\ formation' = formationB /\ players' = playersB /\ uniformColor' = uniformColorB
  /\ teamNameA' = teamNameB /\ teamLogoA' = teamLogoB /\ overrides' = << >>
  /\ formationB' = formation /\ playersB' = players /\ uniformColorB' = uniformColor
  /\ teamNameB' = teamNameA /\ teamLogoB' = teamLogoA /\ overridesB' = << >>
  /\ PlainEffects(TRUE)

\* the swap button (App.tsx 698-720): formation, roster, colour, name, logo
\* and override map change sides; the scores stay
handleSwapTeams ==
  /\ mounted
  /\ Event([ name |-> "handleSwapTeams" ])
  /\ UNCHANGED << scoreA, scoreB, verticalMode, dialogs, feedState, dragRefs, clickRefs,
                  mounted, inflight, sink, lastNotice, probe, savedFile >>
  /\ formation' = formationB
  /\ players' = playersB
  /\ uniformColor' = uniformColorB
  /\ teamNameA' = teamNameB
  /\ teamLogoA' = teamLogoB
  /\ overrides' = overridesB
  /\ formationB' = formation
  /\ playersB' = players
  /\ uniformColorB' = uniformColor
  /\ teamNameB' = teamNameA
  /\ teamLogoB' = teamLogoA
  /\ overridesB' = overrides
  /\ PlainEffects(TRUE)

(***************************************************************************)
(* Live-match feed                                                         *)
(***************************************************************************)
\* allMatches.sort((a, b) => a.fixture.timestamp - b.fixture.timestamp)
RECURSIVE InsertByTimestamp(_, _)
InsertByTimestamp(sorted, m) ==
  IF sorted = << >> THEN << m >>
  ELSE IF m.fixture.timestamp < Head(sorted).fixture.timestamp THEN << m >> \o sorted
  ELSE << Head(sorted) >> \o InsertByTimestamp(Tail(sorted), m)

RECURSIVE SortByTimestamp(_)
SortByTimestamp(ms) ==
  IF ms = << >> THEN << >>
  ELSE InsertByTimestamp(SortByTimestamp(SubSeq(ms, 1, Len(ms) - 1)), ms[Len(ms)])

\* App.tsx 727-762; answer is None when the request or its JSON fails,
\* else Some(list of today's matches).  The two awaits of the handler touch
\* no state in between, so the handler is one step.
loadLiveMatches(answer) ==
  /\ mounted /\ apiKey # "" /\ ~isLoadingMatches
  /\ Event([ name |-> "loadLiveMatches" ])
  /\ UNCHANGED << teamA, teamB, verticalMode, dialogs, apiKey, isLoadingMatches,
                  selectedFixtureId, autoRefreshEnabled, dragRefs, clickRefs, mounted,
                  inflight, sink, probe, savedFile >>
  /\ IF IsSome(answer) /\ Len(TheVal(answer)) > 0
       THEN /\ liveMatches' = SortByTimestamp(TheVal(answer))
            /\ lastNotice' = lastNotice
       ELSE IF IsSome(answer)
         THEN liveMatches' = << >> /\ lastNotice' = "no matches today"
         ELSE liveMatches' = liveMatches /\ lastNotice' = "loading the match list failed"
  /\ RunEffects(timers, broadcastTimerRef, FALSE, intervals, refreshIntervalRef,
                IsSome(answer))

\* a call of loadMatchLineup waiting for its two fetches, with the values
\* the function closed over in the render that created it
Request(fixtureId, homeTeam, awayTeam, isAutoRefresh, c) ==
  [ fixtureId |-> fixtureId, homeTeam |-> homeTeam, awayTeam |-> awayTeam,
    isAutoRefresh |-> isAutoRefresh, apiKey |-> c.apiKey,
    overrides |-> c.overrides, overridesB |-> c.overridesB, verticalMode |-> c.verticalMode ]

\* a match button of the dialog (App.tsx 774-777 up to the first await)
loadMatchLineupUser(k) ==
  /\ mounted /\ k \in DOMAIN liveMatches
  /\ Event([ name |-> "loadMatchLineup", isAutoRefresh |-> FALSE ])
  /\ UNCHANGED << teamA, teamB, verticalMode, dialogs, apiKey, liveMatches,
                  selectedFixtureId, autoRefreshEnabled, dragRefs, clickRefs, mounted,
                  sink, lastNotice, probe, savedFile >>
  /\ LET m == liveMatches[k]
     IN  inflight' = Append(inflight,
                            Request(m.fixture.id, m.teams.home, m.teams.away, FALSE,
                                    IntervalClosure))
  /\ isLoadingMatches' = TRUE
  /\ PlainEffects(FALSE)

\* the interval callback (App.tsx 938-950)
intervalTick(k) ==
  /\ k \in DOMAIN intervals
  /\ LET c == intervals[k].closure
         found == { j \in DOMAIN c.liveMatches :
                      c.liveMatches[j].fixture.id = TheVal(c.selectedFixtureId) }
     IN  IF found # { }
           THEN LET selectedMatch == c.liveMatches[CHOOSE j \in found : \A i \in found : j <= i]
                IN  inflight' = Append(inflight,
                                       Request(TheVal(c.selectedFixtureId),
                                               selectedMatch.teams.home,
                                               selectedMatch.teams.away, TRUE, c))
           ELSE inflight' = inflight
  /\ Event([ name |-> "loadMatchLineup", isAutoRefresh |-> TRUE ])
  /\ UNCHANGED << teamA, teamB, verticalMode, dialogs, feedState, dragRefs, clickRefs,
                  broadcastTimerRef, refreshIntervalRef, isInitialMount, mounted, timers,
                  intervals, sink, lastNotice, probe, savedFile >>

\* An event matches a player by id or by name.  String(a) === String(b)
\* holds for two absent ids as well.
IdMatches(ev, pId) == ev.player.id = pId
GoalMatches(ev, pId, pName) == IdMatches(ev, pId) \/ (pName # "" /\ ev.player.name = pName)
\* a card matching that looks at the player id only
CardMatches_idOnly(ev, pId, pName) == IdMatches(ev, pId)

CardMatches(ev, pId, pName) == IdMatches(ev, pId) \/ ev.player.name = pName

\* a roster mapping that counts every event of type Goal
mapPlayersWithLog_countMissed(startXI, events) ==
  [ k \in 1..Len(startXI) |->
      [ number |-> ToString(k), name |-> startXI[k].player.name,
        yellowCard |-> FALSE, redCard |-> FALSE,
        goals |-> Cardinality({ i \in DOMAIN events :
                                  /\ events[i].type = "Goal"
                                  /\ GoalMatches(events[i], startXI[k].player.id,
                                                 startXI[k].player.name) }) ] ]

\* App.tsx 810-839
mapPlayersWithLog(startXI, events) ==
  [ k \in 1..Len(startXI) |->
      LET pId == startXI[k].player.id
          pName == startXI[k].player.name
          goalCount == Cardinality({ i \in DOMAIN events :
                                       /\ events[i].type = "Goal"
                                       /\ events[i].detail # "Missed Penalty"
                                       /\ GoalMatches(events[i], pId, pName) })
          hasYellow == \E i \in DOMAIN events : /\ events[i].type = "Card"
                                                /\ events[i].detail = "Yellow Card"
                                                /\ CardMatches(events[i], pId, pName)
          hasRed == \E i \in DOMAIN events : /\ events[i].type = "Card"
                                             /\ events[i].detail = "Red Card"
                                             /\ CardMatches(events[i], pId, pName)
      IN  [ number |-> IF IsSome(startXI[k].player.number)
                         THEN ToString(TheVal(startXI[k].player.number))
                         ELSE ToString(k),
            name |-> IF pName # "" THEN pName ELSE DefaultName(k - 1),
            yellowCard |-> hasYellow, redCard |-> hasRed, goals |-> goalCount ] ]

\* App.tsx 95-102: minutes as MM:SS, null for a missing value
formatMatchTime(minutes) ==
  IF minutes = None THEN None ELSE Some([ mm |-> TheVal(minutes), ss |-> 0 ])

\* `latestFixture.goals.home || 0`
OrZero(g) == IF IsSome(g) THEN TheVal(g) ELSE 0

\* App.tsx 854-868
feedLogoData(team) == [ id |-> "api/" \o ToString(team.id), englishName |-> team.name ]

\* `homeLineup.formation || '4-3-3'`
FormationStrOrDefault(str) == IF str = << >> THEN S433 ELSE str

\* the override map a load stores for one team (App.tsx 875, 881)
overridesAfterLoad_alwaysCleared(isAutoRefresh, current) == << >>

overridesAfterLoad_neverCleared(isAutoRefresh, current) == current

overridesAfterLoad(isAutoRefresh, current) == IF ~isAutoRefresh THEN << >> ELSE current

\* the formation a load builds from the feed's string (App.tsx 842-849)
feedFormation(str) ==
  [ name |-> FormationStrOrDefault(str), lines |-> parseFormation(FormationStrOrDefault(str)) ]

\* the feed answers request k (App.tsx 779-922 after the awaits).  ans.kind
\* is "throws" (a fetch or .json() rejects, or the fixture answer lacks
\* response[0]) or "ok" with the lineup list and the fixture detail.  A
\* fixture detail without its goals object makes line 883 throw, after the
\* setters of lines 870-881 have run.
loadMatchLineupAnswer(k, ans) ==
  /\ k \in DOMAIN inflight
  /\ UNCHANGED << uniformColor, uniformColorB, verticalMode, dialogs, apiKey, liveMatches,
                  dragRefs, clickRefs, mounted, sink, probe, savedFile >>
  /\ LET req == inflight[k]
         auto == req.isAutoRefresh
         applies == ans.kind = "ok" /\ Len(ans.lineups) >= 2
         throwsAtScore == applies /\ "goals" \notin DOMAIN ans.fixture
     IN  /\ inflight' = RemoveAt(inflight, k)
         /\ isLoadingMatches' = IF auto THEN isLoadingMatches ELSE FALSE
         /\ IF throwsAtScore
              THEN LET events == ans.fixture.events
                   IN  /\ formation' = feedFormation(ans.lineups[1].formation)
                       /\ players' = mapPlayersWithLog(ans.lineups[1].startXI, events)
                       /\ teamNameA' = req.homeTeam.name
                       /\ teamLogoA' = Some(feedLogoData(req.homeTeam))
                       /\ overrides' = overridesAfterLoad(auto, overrides)
                       /\ formationB' = feedFormation(ans.lineups[2].formation)
                       /\ playersB' = mapPlayersWithLog(ans.lineups[2].startXI, events)
                       /\ teamNameB' = req.awayTeam.name
                       /\ teamLogoB' = Some(feedLogoData(req.awayTeam))
                       /\ overridesB' = overridesAfterLoad(auto, overridesB)
                       /\ UNCHANGED << scoreA, scoreB, selectedFixtureId, autoRefreshEnabled >>
                       /\ lastNotice' = IF auto THEN lastNotice
                                        ELSE "loading the lineup failed"
                       /\ PlainEffects(TRUE)
              ELSE IF applies
              THEN LET homeLineup == ans.lineups[1]
                       awayLineup == ans.lineups[2]
                       events == ans.fixture.events
                       homePlayers == mapPlayersWithLog(homeLineup.startXI, events)
                       homeFormation == feedFormation(homeLineup.formation)
                       awayPlayers == mapPlayersWithLog(awayLineup.startXI, events)
                       awayFormation == feedFormation(awayLineup.formation)
                       homeLogoData == feedLogoData(req.homeTeam)
                       awayLogoData == feedLogoData(req.awayTeam)
                       newScoreA == OrZero(ans.fixture.goals.home)
                       newScoreB == OrZero(ans.fixture.goals.away)
                       a == Args(homeFormation, awayFormation, homePlayers, awayPlayers,
                                 IF auto THEN req.overrides ELSE << >>,
                                 IF auto THEN req.overridesB ELSE << >>,
                                 req.verticalMode, newScoreA, newScoreB,
                                 req.homeTeam.name, req.awayTeam.name,
                                 Some(homeLogoData), Some(awayLogoData),
                                 formatMatchTime(ans.fixture.status.elapsed),
                                 Some(ans.fixture.status.short))
                   IN  /\ formation' = homeFormation
                       /\ players' = homePlayers
                       /\ teamNameA' = req.homeTeam.name
                       /\ teamLogoA' = Some(homeLogoData)
                       /\ overrides' = overridesAfterLoad(auto, overrides)
                       /\ formationB' = awayFormation
                       /\ playersB' = awayPlayers
                       /\ teamNameB' = req.awayTeam.name
                       /\ teamLogoB' = Some(awayLogoData)
                       /\ overridesB' = overridesAfterLoad(auto, overridesB)
                       /\ scoreA' = newScoreA
                       /\ scoreB' = newScoreB
                       /\ selectedFixtureId' = IF auto THEN selectedFixtureId
                                               ELSE Some(req.fixtureId)
                       /\ autoRefreshEnabled' = IF auto THEN autoRefreshEnabled ELSE TRUE
                       /\ lastNotice' = IF auto THEN "auto refresh done" ELSE "lineup loaded"
                       /\ RunEffects(setTimeout(timers, 100, "none", BroadcastCb(a)),
                                     broadcastTimerRef, TRUE, intervals, refreshIntervalRef,
                                     FALSE)
              ELSE /\ UNCHANGED << formation, players, teamNameA, teamLogoA, overrides,
                                   formationB, playersB, teamNameB, teamLogoB, overridesB,
                                   scoreA, scoreB, selectedFixtureId, autoRefreshEnabled >>
                   /\ lastNotice' = IF auto THEN lastNotice
                                    ELSE IF ans.kind = "ok" THEN "no lineup found"
                                    ELSE "loading the lineup failed"
                   /\ PlainEffects(FALSE)
         /\ Event([ name |-> "loadMatchLineupAnswer", isAutoRefresh |-> auto,
                    applied |-> applies /\ ~throwsAtScore,
                    failed |-> ans.kind = "throws" \/ throwsAtScore,
                    fixtureId |-> req.fixtureId, answer |-> ans ])

\* a stop that disables polling and leaves the fixture bound
stopAutoRefresh_keepsFixture ==
  /\ mounted /\ autoRefreshEnabled
  /\ Event([ name |-> "stopAutoRefresh" ])
  /\ UNCHANGED << teamA, teamB, verticalMode, dialogs, apiKey, liveMatches, isLoadingMatches,
                  selectedFixtureId, dragRefs, clickRefs, mounted, inflight, sink, lastNotice,
                  probe, savedFile >>
  /\ autoRefreshEnabled' = FALSE
  /\ RunEffects(timers, broadcastTimerRef, FALSE,
                IF refreshIntervalRef # 0 THEN clearInterval(intervals, refreshIntervalRef)
                ELSE intervals,
                0, FALSE)

\* App.tsx 925-932
stopAutoRefresh ==
  /\ mounted /\ autoRefreshEnabled
  /\ Event([ name |-> "stopAutoRefresh" ])
  /\ UNCHANGED << teamA, teamB, verticalMode, dialogs, apiKey, liveMatches, isLoadingMatches,
                  dragRefs, clickRefs, mounted, inflight, sink, lastNotice, probe, savedFile >>
  /\ autoRefreshEnabled' = FALSE
  /\ selectedFixtureId' = None
  /\ RunEffects(timers, broadcastTimerRef, FALSE,
                IF refreshIntervalRef # 0 THEN clearInterval(intervals, refreshIntervalRef)
                ELSE intervals,
                0, FALSE)

(***************************************************************************)
(* Save / Load JSON                                                        *)
(***************************************************************************)
\* App.tsx 493-513
collectAppSnapshot ==
  [ formation |-> formation, players |-> players, uniformColor |-> uniformColor,
    overrides |-> overrides,
    formationB |-> formationB, playersB |-> playersB, uniformColorB |-> uniformColorB,
    overridesB |-> overridesB,
    teamNameA |-> teamNameA, teamLogoA |-> teamLogoA,
    teamNameB |-> teamNameB, teamLogoB |-> teamLogoB,
    scoreA |-> scoreA, scoreB |-> scoreB, verticalMode |-> verticalMode ]

\* the SAVE button (App.tsx 538-564, electron/main.js 241-250): the file
\* holds JSON.stringify(snapshot); an absent logo is written as null, the
\* numbers of these sessions are finite and are written as they are
handleSaveJSON ==
  /\ mounted
  /\ Event([ name |-> "handleSaveJSON" ])
  /\ UNCHANGED << teamA, teamB, verticalMode, dialogs, feedState, dragRefs, clickRefs,
                  broadcastTimerRef, refreshIntervalRef, isInitialMount, mounted, timers,
                  intervals, inflight, sink, lastNotice, probe >>
  /\ savedFile' = Some(collectAppSnapshot)

\* `if (<test on data.f>) setF(data.f)` for a field whose test passes
\* whenever the field is present with the type the snapshot gives it
Restored(data, f, cur) == IF f \in DOMAIN data THEN data[f] ELSE cur

\* `if (data.teamLogoA) setTeamLogoA(data.teamLogoA)`: null is not stored
RestoredLogo(data, f, cur) == IF f \in DOMAIN data /\ data[f] # None THEN data[f] ELSE cur

\* the LOAD button (App.tsx 566-604) with the parsed file, null for a file
\* that does not parse (main.js 260-265); applySnapshot is App.tsx 515-536
handleLoadJSON(data) ==
  /\ mounted
  /\ Event([ name |-> "handleLoadJSON", data |-> data ])
  /\ UNCHANGED << dialogs, feedState, dragRefs, clickRefs, mounted, inflight, sink,
                  lastNotice, probe, savedFile >>
  /\ formation' = Restored(data, "formation", formation)
  /\ players' = Restored(data, "players", players)
  /\ uniformColor' = Restored(data, "uniformColor", uniformColor)
  /\ overrides' = Restored(data, "overrides", overrides)
  /\ formationB' = Restored(data, "formationB", formationB)
  /\ playersB' = Restored(data, "playersB", playersB)
  /\ uniformColorB' = Restored(data, "uniformColorB", uniformColorB)
  /\ overridesB' = Restored(data, "overridesB", overridesB)
  /\ teamNameA' = Restored(data, "teamNameA", teamNameA)
  /\ teamLogoA' = RestoredLogo(data, "teamLogoA", teamLogoA)
  /\ teamNameB' = Restored(data, "teamNameB", teamNameB)
  /\ teamLogoB' = RestoredLogo(data, "teamLogoB", teamLogoB)
  /\ scoreA' = Restored(data, "scoreA", scoreA)
  /\ scoreB' = Restored(data, "scoreB", scoreB)
  /\ verticalMode' = Restored(data, "verticalMode", verticalMode)
  /\ PlainEffects("players" \in DOMAIN data \/ "playersB" \in DOMAIN data)

(***************************************************************************)
(* The environment: catalog teams, the feed's match list and answers, and  *)
(* the pointer positions the operator uses                                 *)
(***************************************************************************)
TeamCatalog ==
  { [ id |-> "nl/ajax", slug |-> "ajax", englishName |-> "Ajax" ],
    [ id |-> "de/bayern", slug |-> "bayern" ] }

FeedTeam(id, name) == [ id |-> id, name |-> name ]

FeedMatch(fixtureId, timestamp, home, away) ==
  [ fixture |-> [ id |-> fixtureId, timestamp |-> timestamp ],
    teams |-> [ home |-> home, away |-> away ] ]

\* the answer of /fixtures?date=today, as the feed orders it
TodaysMatches ==
  << FeedMatch(67890, 1900, FeedTeam(50, "City"), FeedTeam(42, "Arsenal")),
     FeedMatch(12345, 1600, FeedTeam(157, "Bayern"), FeedTeam(165, "Dortmund")) >>

\* eleven starters; ids base+1 .. base+11, names tag1 .. tag11
StartXI(base, tag) ==
  [ k \in 1..11 |->
      [ player |-> [ id |-> Some(base + k), name |-> tag \o ToString(k),
                     number |-> Some(k) ] ] ]

Lineup(formationStr, startXI) == [ formation |-> formationStr, startXI |-> startXI ]

FeedEvent(type, detail, id, name) ==
  [ type |-> type, detail |-> detail, player |-> [ id |-> id, name |-> name ] ]

FixtureDetail(home, away, elapsed, short, events) ==
  [ goals |-> [ home |-> home, away |-> away ],
    status |-> [ elapsed |-> elapsed, short |-> short ],
    events |-> events ]

Throws == [ kind |-> "throws" ]
Answer(lineups, fixture) == [ kind |-> "ok", lineups |-> lineups, fixture |-> fixture ]

\* what the feed may answer for a fixture, early and later in the match
FeedAnswers(fixtureId) ==
  IF fixtureId = 12345
    THEN { Answer(<< Lineup(S4231, StartXI(980, "H")), Lineup(S442, StartXI(700, "W")) >>,
                  FixtureDetail(None, None, None, "NS", << >>)),
           Answer(<< Lineup(S433, StartXI(980, "H")), Lineup(S442, StartXI(700, "W")) >>,
                  FixtureDetail(Some(1), Some(0), Some(55), "2H",
                                << FeedEvent("Goal", "Normal Goal", Some(987), "H7"),
                                   FeedEvent("Goal", "Missed Penalty", Some(987), "H7"),
                                   FeedEvent("Goal", "Penalty", None, "W9"),
                                   FeedEvent("Card", "Yellow Card", None, "W3"),
                                   FeedEvent("Card", "Red Card", Some(703), "W. Three") >>)),
           Answer(<< Lineup(S433, StartXI(980, "H")) >>,
                  FixtureDetail(Some(1), Some(0), Some(56), "2H", << >>)),
           Throws }
    ELSE { Answer(<< Lineup(<< >>, StartXI(300, "C")), Lineup(S352, StartXI(400, "R")) >>,
                  FixtureDetail(Some(2), Some(2), Some(90), "FT", << >>)),
           Answer(<< Lineup(S532, StartXI(300, "C")), Lineup(S352, StartXI(400, "R")) >>,
                  [ status |-> [ elapsed |-> Some(90), short |-> "FT" ], events |-> << >> ]),
           Throws }

\* the seats the operator grabs and where inside the seat (pixels from
\* its centre)
DragSeats == { 0, 10 }
GrabOffsets == { << 4, 0 - 3 >> }
\* pointer positions relative to the press point, in pixels: inside the
\* threshold, exactly on it, beyond it, and far outside the pitch
PointerDeltas == { << 3, 4 >>, << 6, 0 >>, << 5, 5 >>, << 0 - 900, 900 >> }
EditorFormations == { FORMATIONS_FE[1], FORMATIONS_FE[4] }
TypedNames == { "Kim" }

(***************************************************************************)
(* Specifications                                                          *)
(***************************************************************************)
MaxEvents == 2
MaxSpecFeedEvents == 4
MaxDragEvents == 4
MaxLayoutEvents == 3
MaxFeedEvents == 7
MaxInflight == 1

\* the operator's events stop after `budget` of them; timers still fire
PointerA(budget, seats, deltas) ==
  \/ \E i \in seats, g \in GrabOffsets :
       nEvents < budget /\ onPointerDown(i, g[1], g[2])
  \/ \E d \in deltas : nEvents < budget /\ onPointerMove(d[1], d[2])
  \/ nEvents < budget /\ onPointerUp

PointerB(budget, seats, deltas) ==
  \/ \E i \in seats, g \in GrabOffsets :
       nEvents < budget /\ onPointerDownB(i, g[1], g[2])
  \/ \E d \in deltas : nEvents < budget /\ onPointerMoveB(d[1], d[2])
  \/ nEvents < budget /\ onPointerUpB

ModeButton(budget) == nEvents < budget /\ toggleVerticalMode

Formations(budget) ==
  \/ \E f \in EditorFormations : nEvents < budget /\ updatePlayersForFormation(f)
  \/ \E f \in EditorFormations : nEvents < budget /\ updatePlayersForFormationB(f)

Editing(budget) ==
  \/ \E step \in { 0 - 1, 1 } : nEvents < budget /\ setScoreA(step)
  \/ \E step \in { 0 - 1, 1 } : nEvents < budget /\ setScoreB(step)
  \/ \E team \in TeamCatalog, target \in { "A", "B" } :
       nEvents < budget /\ onMessage(team, target)
  \/ \E v \in TypedNames : nEvents < budget /\ handlePlayerChange(0, v)
  \/ \E v \in TypedNames : nEvents < budget /\ handlePlayerChangeB(0, v)

\* what /fixtures?date=today may answer: a failure, no match, two matches
ListAnswers == { None, Some(<< >>), Some(TodaysMatches) }

Feed(budget, listAnswers) ==
  \/ \E answer \in listAnswers :
       nEvents < budget /\ loadLiveMatches(answer)
  \/ \E k \in DOMAIN liveMatches :
       nEvents < budget /\ Len(inflight) < MaxInflight /\ loadMatchLineupUser(k)
  \/ \E k \in DOMAIN intervals :
       nEvents < budget /\ Len(inflight) < MaxInflight /\ intervalTick(k)
  \/ \E k \in DOMAIN inflight :
       \E ans \in FeedAnswers(inflight[k].fixtureId) :
         nEvents < budget /\ loadMatchLineupAnswer(k, ans)
  \/ nEvents < budget /\ stopAutoRefresh

\* a file of another tool: two known fields and one unknown
ForeignFile == [ scoreA |-> 3, verticalMode |-> TRUE, note |-> "derby" ]

\* the files the operator may open: the saved one, a foreign one, and one
\* that does not parse
LoadableFiles ==
  (IF IsSome(savedFile) THEN { TheVal(savedFile) } ELSE { }) \cup { ForeignFile, None }

Snapshots(budget) ==
  \/ nEvents < budget /\ handleSaveJSON
  \/ \E data \in LoadableFiles : nEvents < budget /\ handleLoadJSON(data)

DoubleClicks(budget, seats) ==
  \/ \E i \in seats : nEvents < budget /\ onDoubleClick(i)
  \/ \E i \in seats : nEvents < budget /\ onDoubleClickB(i)

CardDialog(budget) ==
  \/ \E card \in { "yellow", "red" } : nEvents < budget /\ toggleCard(card)
  \/ \E card \in { "yellow", "red" } : nEvents < budget /\ toggleCardB(card)
  \/ nEvents < budget /\ handleSavePlayer
  \/ nEvents < budget /\ handleSavePlayerB

Swap(budget) == nEvents < budget /\ handleSwapTeams

RosterEdits(budget) ==
  \/ \E v \in TypedNames : nEvents < budget /\ handlePlayerChange(0, v)
  \/ \E v \in TypedNames : nEvents < budget /\ handlePlayerChangeB(0, v)

Timers == \E i \in DOMAIN timers : TimerFires(i)

\* every handler: the operator's gestures and edits among the first
\* MaxEvents events, the feed's steps among the first MaxSpecFeedEvents
Next ==
  \/ Mount
  \/ Timers
  \/ PointerA(MaxEvents, DragSeats, PointerDeltas)
  \/ PointerB(MaxEvents, DragSeats, PointerDeltas)
  \/ ModeButton(MaxEvents)
  \/ Formations(MaxEvents)
  \/ Editing(MaxEvents)
  \/ Feed(MaxSpecFeedEvents, ListAnswers)

Spec == Init /\ [][Next]_vars

\* gestures on both teams' seats in either mode
NextDrag ==
  \/ Mount
  \/ Timers
  \/ PointerA(MaxDragEvents, DragSeats, PointerDeltas)
  \/ PointerB(MaxDragEvents, DragSeats, PointerDeltas)
  \/ ModeButton(MaxDragEvents)

SpecDrag == Init /\ [][NextDrag]_vars

\* drags of one seat of each team in either mode, with the browser's
\* promise that a pending timer fires
MaxSendEvents == 4

NextSend ==
  \/ Mount
  \/ Timers
  \/ PointerA(MaxSendEvents, { 0 }, { << 3, 4 >>, << 5, 5 >> })
  \/ PointerB(MaxSendEvents, { 10 }, { << 3, 4 >>, << 5, 5 >> })
  \/ ModeButton(MaxSendEvents)

\* what a step of Timers does to the queue: a timer that is due leaves it.
\* No handler of NextSend takes one timer out and adds none, so the steps
\* of TimerLeaves are the steps of Timers, and both are enabled exactly
\* when a timer is pending.
TimerLeaves == \E i \in DOMAIN timers : MayFire(i) /\ timers' = RemoveAt(timers, i)

SpecSend == Init /\ [][NextSend]_vars /\ WF_timers(TimerLeaves)

\* one drag distance, with changes of formation and mode around the drags
NextLayout ==
  \/ Mount
  \/ Timers
  \/ PointerA(MaxLayoutEvents, DragSeats, { << 5, 5 >> })
  \/ PointerB(MaxLayoutEvents, DragSeats, { << 5, 5 >> })
  \/ ModeButton(MaxLayoutEvents)
  \/ Formations(MaxLayoutEvents)

SpecLayout == Init /\ [][NextLayout]_vars

\* a session bound to the feed, with a drag of team A between the ticks
NextFeed ==
  \/ Mount
  \/ Timers
  \/ Feed(MaxFeedEvents, { Some(TodaysMatches) })
  \/ PointerA(MaxFeedEvents, { 0 }, { << 5, 5 >> })

SpecFeed == Init /\ [][NextFeed]_vars

\* a session polling the feed: loads, ticks, answers and stops, with a
\* drag of team A between them
MaxPollEvents == 6

NextPoll ==
  \/ Mount
  \/ Timers
  \/ Feed(MaxPollEvents, { Some(TodaysMatches) })
  \/ PointerA(MaxPollEvents, { 0 }, { << 5, 5 >> })

SpecPoll == Init /\ [][NextPoll]_vars

\* clicks and double clicks on the seats of both teams, with a short and
\* a long pointer move
MaxClickEvents == 7

NextClick ==
  \/ Mount
  \/ Timers
  \/ PointerA(MaxClickEvents, DragSeats, { << 3, 4 >>, << 5, 5 >> })
  \/ PointerB(MaxClickEvents, DragSeats, { << 3, 4 >>, << 5, 5 >> })
  \/ DoubleClicks(MaxClickEvents, DragSeats)

SpecClick == Init /\ [][NextClick]_vars

\* score, name and roster edits and the swap, with the timers they arm
MaxEditEvents == 3

NextEdit ==
  \/ Mount
  \/ Timers
  \/ Editing(MaxEditEvents)
  \/ Swap(MaxEditEvents)

SpecEdit == Init /\ [][NextEdit]_vars

\* a click on seat 0 of either team and the buttons of the edit dialogs
MaxDialogEvents == 6

NextDialog ==
  \/ Mount
  \/ Timers
  \/ PointerA(MaxDialogEvents, { 0 }, { << 3, 4 >> })
  \/ PointerB(MaxDialogEvents, { 0 }, { << 3, 4 >> })
  \/ CardDialog(MaxDialogEvents)

SpecDialog == Init /\ [][NextDialog]_vars

\* drags of one seat of each team and the swap
MaxSwapEvents == 5

NextSwap ==
  \/ Mount
  \/ Timers
  \/ PointerA(MaxSwapEvents, { 0 }, { << 5, 5 >> })
  \/ PointerB(MaxSwapEvents, { 10 }, { << 5, 5 >> })
  \/ Swap(MaxSwapEvents)

SpecSwap == Init /\ [][NextSwap]_vars

\* a snapshot of a ten-a-side session: both teams in 4-4-1 with ten players,
\* the goalkeeper of team B dragged
TenASideFile ==
  LET f == [ name |-> << "4", "-", "4", "-", "1" >>, lines |-> << 1, 4, 4, 1 >> ]
      ten == [ k \in 1..10 |-> [ number |-> DefaultNumber(k - 1), name |-> DefaultName(k - 1) ] ]
  IN  [ formation |-> f, players |-> ten, formationB |-> f, playersB |-> ten,
        overridesB |-> [ i \in { 0 } |-> [ x |-> Num(60), y |-> Num(70) ] ] ]

SaveButtons(budget) ==
  \/ nEvents < budget /\ handleSavePlayer
  \/ nEvents < budget /\ handleSavePlayerB

\* the edit dialog of seat 10 of either team is open while the file chosen
\* with LOAD arrives
MaxSaveEvents == 4

NextSave ==
  \/ Mount
  \/ Timers
  \/ PointerA(MaxSaveEvents, { 10 }, { << 3, 4 >> })
  \/ PointerB(MaxSaveEvents, { 10 }, { << 3, 4 >> })
  \/ nEvents < MaxSaveEvents /\ handleLoadJSON(TenASideFile)
  \/ SaveButtons(MaxSaveEvents)

SpecSave == Init /\ [][NextSave]_vars

\* formation changes of rosters of ten and of eleven, with a typed and an
\* erased name, while team B holds a dragged seat
MaxResizeEvents == 4

NextResize ==
  \/ Mount
  \/ Formations(MaxResizeEvents)
  \/ \E v \in { "Kim", "" } : nEvents < MaxResizeEvents /\ handlePlayerChange(0, v)
  \/ nEvents < MaxResizeEvents /\ handleLoadJSON(TenASideFile)

SpecResize == Init /\ [][NextResize]_vars

\* two requests of the feed in flight at once: a load of one fixture while
\* the load or a tick of another has not been answered
MaxRaceEvents == 5
MaxRaceInflight == 2

NextRace ==
  \/ Mount
  \/ Timers
  \/ nEvents < MaxRaceEvents /\ loadLiveMatches(Some(TodaysMatches))
  \/ \E k \in DOMAIN liveMatches :
       nEvents < MaxRaceEvents /\ Len(inflight) < MaxRaceInflight /\ loadMatchLineupUser(k)
  \/ \E k \in DOMAIN intervals :
       nEvents < MaxRaceEvents /\ Len(inflight) < MaxRaceInflight /\ intervalTick(k)
  \/ \E k \in DOMAIN inflight :
       \E ans \in FeedAnswers(inflight[k].fixtureId) :
         nEvents < MaxRaceEvents /\ loadMatchLineupAnswer(k, ans)

SpecRace == Init /\ [][NextRace]_vars

\* every handler that stores a formation or a roster: formation changes,
\* roster edits, swaps, snapshots, and the feed one step deeper (the timer
\* callbacks only send and open the dialog)
MaxRosterEvents == 5
MaxRosterFeedEvents == 5

NextRoster ==
  \/ Mount
  \/ Formations(MaxRosterEvents)
  \/ RosterEdits(MaxRosterEvents)
  \/ Swap(MaxRosterEvents)
  \/ Snapshots(MaxRosterEvents)
  \/ Feed(MaxRosterFeedEvents, { Some(TodaysMatches) })

SpecRoster == Init /\ [][NextRoster]_vars

\* saving and loading around edits of formation, identity, score and mode
\* and a drag of team A
MaxSnapshotEvents == 3

NextSnapshot ==
  \/ Mount
  \/ Timers
  \/ Snapshots(MaxSnapshotEvents)
  \/ Formations(MaxSnapshotEvents)
  \/ Editing(MaxSnapshotEvents)
  \/ ModeButton(MaxSnapshotEvents)
  \/ PointerA(MaxSnapshotEvents, { 0 }, { << 5, 5 >> })

SpecSnapshot == Init /\ [][NextSnapshot]_vars

(***************************************************************************)
(* Pure functions applied to bounded inputs                                *)
(***************************************************************************)
MaxLines == 4
MaxLineCount == 3

RECURSIVE SeqsUpTo(_, _)
SeqsUpTo(S, n) ==
  IF n = 0 THEN { << >> }
  ELSE LET shorter == SeqsUpTo(S, n - 1)
       IN  shorter \cup { Append(q, e) : q \in { r \in shorter : Len(r) = n - 1 }, e \in S }

\* every line list up to the bounds, and the editor's six formations
ProbeFormations ==
  { [ name |-> << >>, lines |-> ls ] : ls \in SeqsUpTo(1..MaxLineCount, MaxLines) \ { << >> } }
    \cup Range(FORMATIONS_FE)

\* split-space coordinates in thirds of a percent, 0 to 100
ProbeCoords == { Frac(n, 3) : n \in 0..300 }

\* render the y in combined-vertical mode, then store it as a drag at the
\* rendered point would (the percentage toPercent returns there)
roundTripY(team, y) == IF team = "A" THEN halfYA(mapYA(y)) ELSE halfYB(mapYB(y))

appVars == << teamA, teamB, verticalMode, dialogs, feedState, dragRefs, clickRefs,
              broadcastTimerRef, refreshIntervalRef, isInitialMount, mounted, timers,
              intervals, inflight, sink, lastNotice, lastEvent, nEvents, savedFile >>

ProbeCalcPositions(f) ==
  /\ probe.op = "none"
  /\ probe' = [ op |-> "calcPositions", in |-> f, out |-> calcPositions(f) ]
  /\ UNCHANGED appVars

ProbeRoundTrip(team, y) ==
  /\ probe.op = "none"
  /\ probe' = [ op |-> "roundTripY", team |-> team, in |-> y, out |-> roundTripY(team, y) ]
  /\ UNCHANGED appVars

\* formation strings of the feed: digits, the hyphen and a foreign character
MaxFormationStrLen == 5
ProbeFormationStrs == SeqsUpTo({ "3", "4", "-", "x" }, MaxFormationStrLen)

\* App.tsx 842-844: the lines built from a lineup's formation string
ProbeParseFormation(str) ==
  /\ probe.op = "none"
  /\ probe' = [ op |-> "parseFormation", in |-> str, out |-> feedFormation(str).lines ]
  /\ UNCHANGED appVars

\* a 4-4-1 of the feed (ten seats for eleven starters) and the editor's 4-4-2
ProbeSeatFormations == { feedFormation(<< "4", "-", "4", "-", "1" >>), FORMATIONS_FE[1] }

ProbeRoster == [ k \in 1..11 |-> [ number |-> DefaultNumber(k - 1), name |-> DefaultName(k - 1) ] ]

\* override maps left by drags of seat 0 and of seat 10; under the ten-seat
\* formation the entry of seat 10 is there and is stale
ProbeOverrideMaps(f) ==
  LET at0 == { << >>, [ i \in { 0 } |-> [ x |-> Num(20), y |-> Num(30) ] ],
               [ i \in { 0 } |-> [ x |-> Frac(100, 3), y |-> Frac(200, 7) ] ] }
      at10 == [ i \in { 10 } |-> [ x |-> Num(60), y |-> Num(70) ] ]
      with10 == { [ i \in DOMAIN m \cup { 10 } |-> IF i = 10 THEN at10[10] ELSE m[i] ] : m \in at0 }
  IN  IF LinesTotal(f.lines) < 11 THEN with10 ELSE at0 \cup with10

\* the seats of both teams as sent (App.tsx 165-219) and as drawn
\* (App.tsx 1202-1256, 1307-1363) for one formation, roster and override map
ProbePositions(f, ov, vertical) ==
  /\ probe.op = "none"
  /\ probe' = [ op |-> "positions", formation |-> f, overrides |-> ov, vertical |-> vertical,
                sentA |-> teamAPositions(f, ProbeRoster, ov, vertical),
                sentB |-> teamBPositions(f, ProbeRoster, ov, vertical),
                drawnA |-> renderSeatsA(f, ProbeRoster, ov, vertical),
                drawnB |-> renderSeatsB(f, ProbeRoster, ov, vertical) ]
  /\ UNCHANGED appVars

NextFn ==
  \/ \E f \in ProbeSeatFormations, vertical \in BOOLEAN :
       \E ov \in ProbeOverrideMaps(f) : ProbePositions(f, ov, vertical)
  \/ \E f \in ProbeFormations : ProbeCalcPositions(f)
  \/ \E team \in { "A", "B" }, y \in ProbeCoords : ProbeRoundTrip(team, y)
  \/ \E str \in ProbeFormationStrs : ProbeParseFormation(str)

SpecFn == Init /\ [][NextFn]_vars

(***************************************************************************)
(* Properties of the layout calculator and the mode transform              *)
(***************************************************************************)
\* the line a roster index belongs to (0-based), by the line sizes
RECURSIVE LineOfIndex(_, _)
LineOfIndex(lines, index) ==
  IF index < Head(lines) THEN 0 ELSE 1 + LineOfIndex(Tail(lines), index - Head(lines))

\* C8: calcPositions returns exactly sum(lines) positions, in roster order:
\* the seats of one line are consecutive and share that line's y, and the
\* seats of line i come before the seats of line i+1.
C8_CountAndOrder ==
  probe.op = "calcPositions" =>
    LET lines == probe.in.lines
        out == probe.out
    IN  /\ Len(out) = SumSeq(lines)
        /\ \A j, k \in 1..Len(out) :
             (LineOfIndex(lines, j - 1) = LineOfIndex(lines, k - 1)) <=> (out[j].y = out[k].y)

C8_Witness ==
  /\ probe.op = "calcPositions"
  /\ probe.in.lines = << 1, 4, 2, 3, 1 >>
  /\ Len(probe.out) = 11

\* C9: with two lines or more, the goalkeeper line has the largest y and
\* each further line a strictly smaller y than the line before it; for
\* 4-4-2 seat 0 has the maximal y and seats 9 and 10 the minimal y.
C9_KeeperAtBaseline ==
  probe.op = "calcPositions" /\ Len(probe.in.lines) >= 2 =>
    LET lines == probe.in.lines
        out == probe.out
    IN  /\ \A j, k \in 1..Len(out) :
             LineOfIndex(lines, j - 1) < LineOfIndex(lines, k - 1) => Less(out[k].y, out[j].y)
        /\ lines = << 1, 4, 4, 2 >> =>
             /\ Len(out) = 11
             /\ \A k \in 1..11 : Leq(out[k].y, out[1].y) /\ Leq(out[10].y, out[k].y)
             /\ out[11].y = out[10].y
             /\ \A k \in 2..9 : Less(out[k].y, out[1].y) /\ Less(out[10].y, out[k].y)

C9_Witness ==
  /\ probe.op = "calcPositions"
  /\ probe.in.lines = << 1, 4, 4, 2 >>
  /\ probe.out[1].y = Num(90)
  /\ probe.out[10].y = Num(10)

\* C10: mapping a split-space y into combined-vertical space and back with
\* the inverse of the drag handler gives the original y, for both teams.
C10_RoundTrip == probe.op = "roundTripY" => probe.out = probe.in

(***************************************************************************)
(* Properties of a session bound to the feed                               *)
(***************************************************************************)
\* the step is the handler named `name` (a timer callback is no event)
IsEvent(name) == nEvents' = nEvents + 1 /\ lastEvent'.name = name

AnswerApplied(isAutoRefresh) ==
  /\ IsEvent("loadMatchLineupAnswer")
  /\ lastEvent'.isAutoRefresh = isAutoRefresh
  /\ lastEvent'.applied

\* C1: when the answer of an auto-refresh tick is applied (roster and
\* score replaced), every entry of both teams' override maps is as before.
C1_AutoRefreshKeepsOverrides ==
  [][ AnswerApplied(TRUE) => overrides' = overrides /\ overridesB' = overridesB ]_vars

\* a tick has replaced roster and score while seat 0 of team A was nudged
C1_Witness ==
  /\ lastEvent.name = "loadMatchLineupAnswer"
  /\ lastEvent.isAutoRefresh /\ lastEvent.applied
  /\ 0 \in DOMAIN overrides
  /\ scoreA = 1
  /\ players[7].goals = 1

\* the match of today's list with the given fixture id
MatchOf(fixtureId) ==
  TodaysMatches[CHOOSE k \in DOMAIN TodaysMatches : TodaysMatches[k].fixture.id = fixtureId]

\* C2: when the answer of a user-initiated load of fixture F is applied,
\* both teams' formation, roster, score and identity are the fetched ones
\* ("4-2-3-1" gives lines 1,4,2,3,1), both override maps are empty, and
\* auto-refresh is enabled with its interval bound to F.
C2_UserLoadReplaces ==
  [][ AnswerApplied(FALSE) =>
        LET F == lastEvent'.fixtureId
            ans == lastEvent'.answer
            home == ans.lineups[1]
            away == ans.lineups[2]
        IN  /\ home.formation # << >> => formation'.name = home.formation
            /\ away.formation # << >> => formationB'.name = away.formation
            /\ formation'.name = S4231 => formation'.lines = << 1, 4, 2, 3, 1 >>
            /\ formationB'.name = S442 => formationB'.lines = << 1, 4, 4, 2 >>
            /\ Len(players') = Len(home.startXI) /\ Len(playersB') = Len(away.startXI)
            /\ \A k \in DOMAIN players' : players'[k].name = home.startXI[k].player.name
            /\ \A k \in DOMAIN playersB' : playersB'[k].name = away.startXI[k].player.name
            /\ Some(scoreA') = (IF ans.fixture.goals.home = None THEN Some(0)
                                ELSE ans.fixture.goals.home)
            /\ Some(scoreB') = (IF ans.fixture.goals.away = None THEN Some(0)
                                ELSE ans.fixture.goals.away)
            /\ teamNameA' = MatchOf(F).teams.home.name
            /\ teamNameB' = MatchOf(F).teams.away.name
            /\ overrides' = << >> /\ overridesB' = << >>
            /\ autoRefreshEnabled' /\ selectedFixtureId' = Some(F)
            /\ \E i \in DOMAIN intervals' :
                 /\ intervals'[i].id = refreshIntervalRef'
                 /\ intervals'[i].closure.selectedFixtureId = Some(F) ]_vars

\* fixture 12345 was loaded by the user while a nudged seat of team A was
\* still held: the nudge is gone
C2_Witness ==
  /\ lastEvent.name = "loadMatchLineupAnswer"
  /\ ~lastEvent.isAutoRefresh /\ lastEvent.applied
  /\ lastEvent.fixtureId = 12345
  /\ formation = [ name |-> S4231, lines |-> << 1, 4, 2, 3, 1 >> ]
  /\ IsSome(draggingRef) /\ TheVal(draggingRef).moved
  /\ overrides = << >>
  /\ autoRefreshEnabled /\ selectedFixtureId = Some(12345)

(***************************************************************************)
(* Properties of the drag gestures                                         *)
(***************************************************************************)
\* squared distance of a move event from the press point, in pixels
Displacement2(e) == e.dx * e.dx + e.dy * e.dy

Threshold2 == MOVEMENT_THRESHOLD * MOVEMENT_THRESHOLD

\* the timers of the next state that this step armed
ArmedNow == { k \in DOMAIN timers' : timers'[k].id \notin TimerIds(timers) }

NoClickArmed == \A k \in ArmedNow : timers'[k].cb.kind # "click"

\* C3: while a gesture has stayed below 6 px from its press point, its
\* moves and its release leave that team's override map as it was.
C3_SmallGestureKeepsOverrides ==
  [][ /\ ( /\ IsEvent("onPointerMove")
           /\ ~TheVal(draggingRef).moved
           /\ Displacement2(lastEvent') < Threshold2 ) => overrides' = overrides
      /\ ( /\ IsEvent("onPointerMoveB")
           /\ ~TheVal(draggingRefB).moved
           /\ Displacement2(lastEvent') < Threshold2 ) => overridesB' = overridesB
      /\ ( IsEvent("onPointerUp") /\ ~TheVal(draggingRef).moved ) => overrides' = overrides
      /\ ( IsEvent("onPointerUpB") /\ ~TheVal(draggingRefB).moved ) =>
           overridesB' = overridesB ]_vars

\* C4 as stated: a release that follows a move at 6 px or more from the
\* press point finds an override for the seat and schedules no click.
C4_AtThresholdNoClick ==
  [][ /\ ( /\ lastEvent.name = "onPointerMove" /\ Displacement2(lastEvent) >= Threshold2
           /\ IsEvent("onPointerUp") ) =>
           TheVal(draggingRef).index \in DOMAIN overrides /\ NoClickArmed
      /\ ( /\ lastEvent.name = "onPointerMoveB" /\ Displacement2(lastEvent) >= Threshold2
           /\ IsEvent("onPointerUpB") ) =>
           TheVal(draggingRefB).index \in DOMAIN overridesB /\ NoClickArmed ]_vars

\* C4: a move at more than 6 px from the press point stores an override
\* for the seat and turns the gesture into a drag, a drag stays a drag, and
\* the release of a drag schedules no click: the click refs and the pending
\* click timers are as before.
C4_BeyondThresholdNoClick ==
  [][ /\ ( IsEvent("onPointerMove") /\ Displacement2(lastEvent') > Threshold2 ) =>
           /\ TheVal(draggingRef').moved
           /\ TheVal(draggingRef).index \in DOMAIN overrides'
      /\ ( IsEvent("onPointerMove") /\ TheVal(draggingRef).moved ) =>
           /\ TheVal(draggingRef').moved
           /\ TheVal(draggingRef).index \in DOMAIN overrides'
      /\ ( IsEvent("onPointerUp") /\ TheVal(draggingRef).moved ) =>
           NoClickArmed /\ UNCHANGED clickRefs
      /\ ( IsEvent("onPointerMoveB") /\ Displacement2(lastEvent') > Threshold2 ) =>
           /\ TheVal(draggingRefB').moved
           /\ TheVal(draggingRefB).index \in DOMAIN overridesB'
      /\ ( IsEvent("onPointerMoveB") /\ TheVal(draggingRefB).moved ) =>
           /\ TheVal(draggingRefB').moved
           /\ TheVal(draggingRefB).index \in DOMAIN overridesB'
      /\ ( IsEvent("onPointerUpB") /\ TheVal(draggingRefB).moved ) =>
           NoClickArmed /\ UNCHANGED clickRefs ]_vars

\* a drag of seat 10 was released: an override, a pending broadcast, no
\* click timer
C4_Witness ==
  /\ lastEvent.name = "onPointerUp" /\ lastEvent.moved
  /\ 10 \in DOMAIN overrides
  /\ singleClickTimerRef = 0
  /\ broadcastTimerRef # 0
  /\ \A k \in DOMAIN timers : timers[k].cb.kind = "broadcast"

(***************************************************************************)
(* Properties of the broadcasts                                            *)
(***************************************************************************)
\* C5: the changes of one 100 ms window give one emission, so a session
\* never has more emissions than it had events.
C5_OneEmissionPerBurst == nSent <= nEvents

\* C6: the payload of every emission is the one of the session's values at
\* that moment: mode, scores, team identity, formations and both teams'
\* seats (rosters and effective positions).
C6_EmissionIsCurrent ==
  [][ nSent' = nSent + 1 =>
        LET sent == TheVal(lastSent')
            current == broadcastData(CurArgs)
        IN  /\ sent.verticalMode = current.verticalMode
            /\ sent.match.scoreA = current.match.scoreA
            /\ sent.match.scoreB = current.match.scoreB
            /\ sent.match.teamA = current.match.teamA
            /\ sent.match.teamB = current.match.teamB
            /\ sent.teams = current.teams ]_vars

\* the override of the seat when there is one, else the computed position;
\* computed is calcPositions(formation)
EffectivePosition(computed, ov, index) ==
  IF index \in DOMAIN ov THEN ov[index] ELSE computed[index + 1]

\* where a position is shown for a team in the given mode
Shown(pos, team, vertical) ==
  IF vertical
    THEN [ x |-> mapX(pos.x), y |-> IF team = "A" THEN mapYA(pos.y) ELSE mapYB(pos.y) ]
    ELSE pos

\* roster indices that have a computed position
Seated(computed, roster) == { i \in 0..(Len(roster) - 1) : i + 1 <= Len(computed) }

DrawnFrom(seats, formationArg, roster, ov, team) ==
  LET computed == calcPositions(formationArg)
      drawn == seats
  IN  /\ { drawn[k].index : k \in DOMAIN drawn } = Seated(computed, roster)
      /\ \A k \in DOMAIN drawn :
           [ x |-> drawn[k].left, y |-> drawn[k].top ]
             = Shown(EffectivePosition(computed, ov, drawn[k].index), team, verticalMode)

SentFrom(seats, formationArg, roster, ov, team, vertical) ==
  LET computed == calcPositions(formationArg)
  IN  /\ { seats[k].id[2] : k \in DOMAIN seats } = Seated(computed, roster)
      /\ \A k \in DOMAIN seats :
           LET e == Shown(EffectivePosition(computed, ov, seats[k].id[2]), team, vertical)
           IN  seats[k].x = round2(e.x) /\ seats[k].y = round2(e.y)

\* C7: for both teams and every seat with a computed position, the seat is
\* drawn, and sent by every pending broadcast, at its override when it has
\* one and else at calcPositions(formation)[index].
C7_EffectivePosition ==
  /\ DrawnFrom(SeatsA, formation, players, overrides, "A")
  /\ DrawnFrom(SeatsB, formationB, playersB, overridesB, "B")
  /\ \A k \in DOMAIN timers :
       timers[k].cb.kind = "broadcast" =>
         LET a == timers[k].cb.args
             sent == broadcastData(a)
         IN  /\ SentFrom(sent.teams.A, a.formation, a.players, a.overrides, "A",
                         a.verticalMode)
             /\ SentFrom(sent.teams.B, a.formationB, a.playersB, a.overridesB, "B",
                         a.verticalMode)

\* seat 0 of team B has an override and seat 10 has none, on screen and in
\* a broadcast waiting to be sent
C7_Witness ==
  /\ 0 \in DOMAIN overridesB /\ 10 \notin DOMAIN overridesB
  /\ \E k \in DOMAIN timers :
       /\ timers[k].cb.kind = "broadcast"
       /\ 0 \in DOMAIN timers[k].cb.args.overridesB
       /\ 10 \notin DOMAIN timers[k].cb.args.overridesB
       /\ timers[k].cb.args.verticalMode

(***************************************************************************)
(* Drags in combined-vertical mode                                         *)
(***************************************************************************)
\* the percentage toPercent derives from the pointer of a move event e of
\* the gesture dr, inside the container rect
PointerPercent(dr, e, rect) ==
  toPercent(Minus(Plus(dr.startX, Num(e.dx)), dr.pointerOffsetX),
            Minus(Plus(dr.startY, Num(e.dy)), dr.pointerOffsetY), rect)

\* C11: after a move of a drag in combined-vertical mode the dragged seat
\* is drawn at the pointer-derived x and y, for team A and for team B.
C11_DragLandsUnderPointer ==
  [][ /\ ( IsEvent("onPointerMove") /\ verticalMode ) =>
           LET dr == TheVal(draggingRef)
               st == SeatOf(renderSeatsA(formation', players', overrides', verticalMode'),
                            dr.index)
               p == PointerPercent(dr, lastEvent', fieldRect)
           IN  st.left = p.x /\ st.top = p.y
      /\ ( IsEvent("onPointerMoveB") /\ verticalMode ) =>
           LET dr == TheVal(draggingRefB)
               st == SeatOf(renderSeatsB(formationB', playersB', overridesB', verticalMode'),
                            dr.index)
               p == PointerPercent(dr, lastEvent', fieldRect)
           IN  st.left = p.x /\ st.top = p.y ]_vars

(* Goals of an incoming roster *)
\* the goal events of the answer that count for the lineup entry: type
\* Goal, detail other than "Missed Penalty", same player id or same name
CountingGoals(events, entry) ==
  { i \in DOMAIN events :
      /\ events[i].type = "Goal"
      /\ events[i].detail # "Missed Penalty"
      /\ \/ events[i].player.id = entry.player.id
         \/ events[i].player.name = entry.player.name }

\* C12: when an answer is applied, every player of both incoming rosters
\* has as goals the number of Goal events, other than missed penalties,
\* whose player matches by id or by name; with one goal and one missed
\* penalty for player id 987 that player has goals = 1.
C12_GoalsCounted ==
  [][ ( IsEvent("loadMatchLineupAnswer") /\ lastEvent'.applied ) =>
        LET ans == lastEvent'.answer
            events == ans.fixture.events
            home == ans.lineups[1].startXI
            away == ans.lineups[2].startXI
        IN  /\ \A k \in DOMAIN home :
                 /\ players'[k].goals = Cardinality(CountingGoals(events, home[k]))
                 /\ ( /\ home[k].player.id = Some(987)
                      /\ Cardinality({ i \in DOMAIN events : events[i].type = "Goal"
                                         /\ events[i].player.id = Some(987) }) = 2
                      /\ \E i \in DOMAIN events : /\ events[i].player.id = Some(987)
                                                   /\ events[i].detail = "Missed Penalty" )
                     => players'[k].goals = 1
            /\ \A k \in DOMAIN away :
                 playersB'[k].goals = Cardinality(CountingGoals(events, away[k])) ]_vars

\* the answer with a goal and a missed penalty of player 987 and a penalty
\* goal matched by name only has been applied
C12_Witness ==
  /\ lastEvent.name = "loadMatchLineupAnswer" /\ lastEvent.applied
  /\ \E i \in DOMAIN lastEvent.answer.fixture.events :
       /\ lastEvent.answer.fixture.events[i].detail = "Missed Penalty"
       /\ lastEvent.answer.fixture.events[i].player.id = Some(987)
  /\ players[7].goals = 1
  /\ playersB[9].goals = 1
  /\ \A k \in DOMAIN players : k # 7 => players[k].goals = 0

(* Parsing the feed's formation string *)
\* every part between hyphens is a non-empty run of digits
IsIntegerList(str) ==
  /\ str # << >>
  /\ \A i \in DOMAIN Split(str, "-") :
       LET part == Split(str, "-")[i]
       IN  part # << >> /\ \A j \in DOMAIN part : part[j] \in Digits

RECURSIVE IntegerOf(_)
IntegerOf(part) ==
  IF part = << >> THEN 0
  ELSE 10 * IntegerOf(SubSeq(part, 1, Len(part) - 1)) + DigitVal(part[Len(part)])

\* C13: the lines of a formation string are 1 followed by its integers
\* ("4-3-3" gives 1,4,3,3), and 1,4,3,3 for a missing or unparseable string.
C13_ParseFormation ==
  probe.op = "parseFormation" =>
    IF IsIntegerList(probe.in)
      THEN probe.out = << 1 >> \o [ i \in DOMAIN Split(probe.in, "-") |->
                                      IntegerOf(Split(probe.in, "-")[i]) ]
      ELSE probe.out = << 1, 4, 3, 3 >>

(* Failures of a load *)
session == << teamA, teamB, selectedFixtureId, autoRefreshEnabled >>

AnswerFailed(isAutoRefresh) ==
  /\ IsEvent("loadMatchLineupAnswer")
  /\ lastEvent'.isAutoRefresh = isAutoRefresh
  /\ lastEvent'.failed

\* C14: when a user-initiated load fails, the failure is shown and both
\* teams' formation, roster, score, identity and override map and the
\* fixture binding are as they were.
C14_UserFailureLeavesState ==
  [][ AnswerFailed(FALSE) =>
        /\ lastNotice' = "loading the lineup failed"
        /\ session' = session
        /\ intervals' = intervals /\ refreshIntervalRef' = refreshIntervalRef ]_vars

\* C15: when an auto-refresh tick fails, the polling interval stays armed
\* and the fixture binding and both teams' state are as they were.
C15_TickFailureLeavesState ==
  [][ AnswerFailed(TRUE) =>
        /\ session' = session
        /\ intervals' = intervals /\ refreshIntervalRef' = refreshIntervalRef ]_vars

(* The polling interval *)
\* C16: at every moment at most one polling interval is armed; it is the
\* one the ref holds and it polls the bound fixture, and none is armed
\* while no fixture is bound.
C16_OneInterval ==
  /\ Len(intervals) <= 1
  /\ intervals # << >> =>
       /\ intervals[1].id = refreshIntervalRef
       /\ autoRefreshEnabled
       /\ intervals[1].closure.selectedFixtureId = selectedFixtureId
  /\ ~RefreshWanted => intervals = << >>

\* the broadcast of fixture 12345 is still pending while the session has
\* been switched to fixture 67890, which the one interval polls
C16_Witness ==
  /\ \E i \in DOMAIN timers : /\ timers[i].cb.kind = "broadcast"
                               /\ timers[i].cb.args.teamNameA = "Bayern"
  /\ selectedFixtureId = Some(67890)
  /\ Len(intervals) = 1
  /\ intervals[1].closure.selectedFixtureId = Some(67890)

\* C17: an explicit stop cancels the polling interval and clears the
\* fixture binding (no fixture selected, auto-refresh disabled), and both
\* teams' formation, roster, score, identity and override map stay as
\* last fetched.
C17_StopKeepsState ==
  [][ IsEvent("stopAutoRefresh") =>
        /\ intervals' = << >> /\ refreshIntervalRef' = 0
        /\ selectedFixtureId' = None /\ ~autoRefreshEnabled'
        /\ teamA' = teamA /\ teamB' = teamB ]_vars

\* polling of fixture 12345 was stopped at 1-0 with seat 0 of team A nudged
C17_Witness ==
  /\ lastEvent.name = "stopAutoRefresh"
  /\ teamNameA = "Bayern" /\ scoreA = 1 /\ formation.name = S433
  /\ 0 \in DOMAIN overrides
  /\ intervals = << >> /\ selectedFixtureId = None

(* The first render *)
\* C18: before the first change after mount nothing has been emitted and
\* no emission is pending.
C18_FirstRenderSilent ==
  nEvents = 0 => nSent = 0 /\ lastSent = None /\ timers = << >>

\* the effects of the first render have run and nothing else has happened
C18_Witness == mounted /\ ~isInitialMount /\ nEvents = 0 /\ nSent = 0 /\ timers = << >>

(* Snapshot round trip *)
SnapshotFields == DOMAIN collectAppSnapshot

\* C19: loading a file sets every snapshot field the file holds to the
\* file's value, an absent logo included, and leaves the fields the file
\* lacks as they were; a file saved from session S therefore gives back S.
C19_RoundTrip ==
  [][ IsEvent("handleLoadJSON") =>
        \A f \in SnapshotFields :
          IF f \in DOMAIN lastEvent'.data
            THEN collectAppSnapshot'[f] = lastEvent'.data[f]
            ELSE collectAppSnapshot'[f] = collectAppSnapshot[f] ]_vars

(* Overrides across a change of formation *)
\* C20: whenever a step changes a team's formation, whatever the
\* operation, that team's override map is empty after the step.
C20_FormationChangeClears ==
  [][ /\ formation' # formation => overrides' = << >>
      /\ formationB' # formationB => overridesB' = << >> ]_vars

PendingClicks(ts) == { ts[i].cb : i \in { j \in DOMAIN ts : ts[j].cb.kind = "click" } }

PendingClicksOf(ts, team) == { cb \in PendingClicks(ts) : cb.team = team }

\* the step ran the delayed click cb and opened its dialog
ClickRan(cb) ==
  /\ lastEvent'.name = "timer" /\ lastEvent'.kind = "click"
  /\ lastEvent'.ref = (IF cb.team = "A" THEN "clickA" ELSE "clickB")
  /\ IF cb.team = "A" THEN selectedPlayer' = Some(cb.index)
                      ELSE selectedPlayerB' = Some(cb.index)

\* the step belongs to a double click: its second release or its dblclick
DoubleClickStep ==
  /\ nEvents' = nEvents + 1
  /\ \/ lastEvent'.name \in { "onDoubleClick", "onDoubleClickB" }
     \/ lastEvent'.name \in { "onPointerUp", "onPointerUpB" } /\ lastEvent'.clicks = 2

\* the step is an unmoved release on a seat of the team
UnmovedRelease(team) ==
  /\ nEvents' = nEvents + 1
  /\ lastEvent'.name = (IF team = "A" THEN "onPointerUp" ELSE "onPointerUpB")
  /\ ~lastEvent'.moved

\* a dblclick opened the dialog of its seat at once and nothing will open it again
DoubleClickOpensOnce ==
  /\ IsEvent("onDoubleClick") =>
       /\ selectedPlayer' = Some(lastEvent'.index)
       /\ editingPlayer' = PlayerAt(players, lastEvent'.index)
       /\ PendingClicksOf(timers', "A") = {} /\ singleClickTimerRef' = 0
  /\ IsEvent("onDoubleClickB") =>
       /\ selectedPlayerB' = Some(lastEvent'.index)
       /\ editingPlayerB' = PlayerAt(playersB, lastEvent'.index)
       /\ PendingClicksOf(timers', "B") = {} /\ singleClickTimerRefB' = 0

NameChanged == mounted /\ << teamNameA, teamNameB >>' # << teamNameA, teamNameB >>

\* the timers that nothing can cancel: no ref holds their id
UntrackedTimers(ts) == { ts[i] : i \in { j \in DOMAIN ts : ts[j].ref = "none" } }

\* C23: a change of a team name arms a send of the new state with delay 0
\* that is due before every debounced send and is held by no ref; a pending
\* debounced send neither replaces it nor is touched by it, and the send
\* stays armed until it runs and hands the state it captured to the overlay
C23_NameChangeSendsAtOnce ==
  [][ /\ NameChanged =>
           \E i \in DOMAIN timers' :
             /\ timers'[i].id \notin TimerIds(timers)
             /\ timers'[i].delay = 0 /\ timers'[i].ref = "none"
             /\ timers'[i].id # broadcastTimerRef'
             /\ timers'[i].cb = BroadcastCb(CurArgs')
             /\ \A j \in 1..(i - 1) : timers'[j].delay > 0 \/ timers'[j].ref = "none"
      /\ (NameChanged /\ IsEvent("onMessage")) =>
           /\ broadcastTimerRef' = broadcastTimerRef
           /\ \A i \in DOMAIN timers : \E j \in DOMAIN timers' : timers'[j] = timers[i]
      /\ \A t \in UntrackedTimers(timers) :
           \/ t \in UntrackedTimers(timers')
           \/ /\ lastEvent' = [ name |-> "timer", kind |-> "broadcast", ref |-> "none",
                                 delay |-> 0 ]
              /\ lastSent' = Some(broadcastData(t.cb.args))
              /\ nSent' = nSent + 1 ]_vars

\* the send of a changed name has run while the debounced send of an earlier
\* score change is still waiting
C23_Witness ==
  /\ lastEvent = [ name |-> "timer", kind |-> "broadcast", ref |-> "none", delay |-> 0 ]
  /\ IsSome(lastSent) /\ TheVal(lastSent).match.teamA.name = "Ajax"
  /\ TheVal(lastSent).match.scoreA = 1
  /\ teamNameA = "Ajax" /\ scoreA = 1
  /\ \E i \in DOMAIN timers : timers[i].id = broadcastTimerRef /\ timers[i].delay = 100

AtMostOneCard(player) == ~(Flag(player, "yellowCard") /\ Flag(player, "redCard"))

\* C24: no roster of the editor has carded players at the start, so every
\* player the dialog is opened on has at most one flag set; after any
\* sequence of presses of the yellow and red buttons the edited player, and
\* every player saved from the dialog, has at most one of the flags set
C24_CardsExclusive ==
  /\ IsSome(editingPlayer) => AtMostOneCard(TheVal(editingPlayer))
  /\ IsSome(editingPlayerB) => AtMostOneCard(TheVal(editingPlayerB))
  /\ \A k \in DOMAIN players : AtMostOneCard(players[k])
  /\ \A k \in DOMAIN playersB : AtMostOneCard(playersB[k])

\* a team's drag state and override map
DragStateA == << draggingRef, overrides >>
DragStateB == << draggingRefB, overridesB >>

PointerEventA ==
  nEvents' = nEvents + 1 /\ lastEvent'.name \in { "onPointerDown", "onPointerMove", "onPointerUp" }
PointerEventB ==
  nEvents' = nEvents + 1
  /\ lastEvent'.name \in { "onPointerDownB", "onPointerMoveB", "onPointerUpB" }

\* what a move by (dx, dy) makes of a team's drag state and map when the
\* team's events are the only ones: computed from the team's own drag
\* record and map, the mode and the field the team is drawn on
AloneMove(dr0, prev, vertical, rect, team, dx, dy) ==
  LET dr == [ dr0 EXCEPT !.moved = movedAfter(dr0, dx, dy) ]
      p == toPercent(Minus(Plus(dr.startX, Num(dx)), dr.pointerOffsetX),
                     Minus(Plus(dr.startY, Num(dy)), dr.pointerOffsetY), rect)
  IN  << Some(dr), IF team = "A" THEN storedPosA(dr, p, vertical, prev)
                                 ELSE storedPosB(dr, p, vertical, prev) >>

\* C25: a pointer event of team A leaves team B's drag state and override
\* map alone and the other way round, and what an event makes of its own
\* team's drag state and map is what it makes of them when the other team
\* is not being dragged: a press leaves the map, a move stores the seat of
\* its own drag record, a release ends the drag and leaves the map
C25_DragsIndependent ==
  [][ /\ PointerEventA => DragStateB' = DragStateB
      /\ PointerEventB => DragStateA' = DragStateA
      /\ IsEvent("onPointerDown") =>
           /\ overrides' = overrides
           /\ TheVal(draggingRef').index = lastEvent'.index /\ ~TheVal(draggingRef').moved
      /\ IsEvent("onPointerDownB") =>
           /\ overridesB' = overridesB
           /\ TheVal(draggingRefB').index = lastEvent'.index /\ ~TheVal(draggingRefB').moved
      /\ IsEvent("onPointerMove") =>
           DragStateA' = AloneMove(TheVal(draggingRef), overrides, verticalMode, fieldRect,
                                   "A", lastEvent'.dx, lastEvent'.dy)
      /\ IsEvent("onPointerMoveB") =>
           DragStateB' = AloneMove(TheVal(draggingRefB), overridesB, verticalMode,
                                   IF verticalMode THEN fieldRect ELSE fieldRectB,
                                   "B", lastEvent'.dx, lastEvent'.dy)
      /\ IsEvent("onPointerUp") => DragStateA' = << None, overrides >>
      /\ IsEvent("onPointerUpB") => DragStateB' = << None, overridesB >> ]_vars

\* both teams are being dragged at once, each past the threshold, and each
\* map holds the seat of its own drag only
C25_Witness ==
  /\ IsSome(draggingRef) /\ TheVal(draggingRef).moved /\ TheVal(draggingRef).index = 0
  /\ IsSome(draggingRefB) /\ TheVal(draggingRefB).moved /\ TheVal(draggingRefB).index = 10
  /\ DOMAIN overrides = { 0 } /\ DOMAIN overridesB = { 10 }
  /\ lastEvent.name = "onPointerMove"

\* every seat with an override is drawn from the stored value: as stored in
\* split mode, through the mode's transform in vertical mode
DrawnFromStore(seatsA, seatsB, ov, ovB, vertical) ==
  /\ \A st \in Range(seatsA) : st.index \in DOMAIN ov =>
        << st.left, st.top >> = IF vertical
                                  THEN << mapX(ov[st.index].x), mapYA(ov[st.index].y) >>
                                  ELSE << ov[st.index].x, ov[st.index].y >>
  /\ \A st \in Range(seatsB) : st.index \in DOMAIN ovB =>
        << st.left, st.top >> = IF vertical
                                  THEN << mapX(ovB[st.index].x), mapYB(ovB[st.index].y) >>
                                  ELSE << ovB[st.index].x, ovB[st.index].y >>

LineSeatX(positions, lines, l, k) == positions[SumSeq(SubSeq(lines, 1, l - 1)) + k + 1].x

\* C27: in every line of n seats the x of calcPositions falls strictly with
\* the roster index within the line, in equal steps of 120 / (n + 1), and
\* seat k and seat n - 1 - k lie symmetric about x = 50
C27_LineSpacing ==
  probe.op = "calcPositions" =>
    \A l \in DOMAIN probe.in.lines :
      LET n == probe.in.lines[l]
      IN  /\ \A k \in 0..(n - 1) :
               Plus(LineSeatX(probe.out, probe.in.lines, l, k),
                    LineSeatX(probe.out, probe.in.lines, l, n - 1 - k)) = Num(100)
          /\ \A k \in 0..(n - 2) :
               /\ Less(LineSeatX(probe.out, probe.in.lines, l, k + 1),
                       LineSeatX(probe.out, probe.in.lines, l, k))
               /\ Minus(LineSeatX(probe.out, probe.in.lines, l, k),
                        LineSeatX(probe.out, probe.in.lines, l, k + 1)) = Frac(120, n + 1)

\* 4-4-2: the first defender stands at x = 86, the last at x = 14, and the
\* two forwards at 70 and 30
C27_Witness ==
  /\ probe.op = "calcPositions"
  /\ probe.in.lines = << 1, 4, 4, 2 >>
  /\ probe.out[2].x = Num(86) /\ probe.out[5].x = Num(14)
  /\ probe.out[10].x = Num(70) /\ probe.out[11].x = Num(30)

(* Cards of an incoming roster *)
\* the answer holds a card event of the detail for the lineup entry: same
\* player id or same name
CardEventFor(events, detail, entry) ==
  \E i \in DOMAIN events :
    /\ events[i].type = "Card" /\ events[i].detail = detail
    /\ \/ events[i].player.id = entry.player.id
       \/ events[i].player.name = entry.player.name

\* C28: when an answer is applied, every player of both incoming rosters
\* has yellowCard set exactly when a Yellow Card event matches the player
\* by id or by name, and redCard exactly when a Red Card event does; the
\* two flags are set independently of each other
C28_CardsFromEvents ==
  [][ ( IsEvent("loadMatchLineupAnswer") /\ lastEvent'.applied ) =>
        LET ans == lastEvent'.answer
            events == ans.fixture.events
            home == ans.lineups[1].startXI
            away == ans.lineups[2].startXI
        IN  /\ \A k \in DOMAIN home :
                 /\ players'[k].yellowCard = CardEventFor(events, "Yellow Card", home[k])
                 /\ players'[k].redCard = CardEventFor(events, "Red Card", home[k])
            /\ \A k \in DOMAIN away :
                 /\ playersB'[k].yellowCard = CardEventFor(events, "Yellow Card", away[k])
                 /\ playersB'[k].redCard = CardEventFor(events, "Red Card", away[k]) ]_vars

\* the answer with a yellow card matched by name and a red card matched by
\* id for the same away player has been applied: that player has both flags
\* and nobody else has any
C28_Witness ==
  /\ lastEvent.name = "loadMatchLineupAnswer" /\ lastEvent.applied
  /\ playersB[3].yellowCard /\ playersB[3].redCard
  /\ \A k \in DOMAIN playersB : k # 3 => ~playersB[k].yellowCard /\ ~playersB[k].redCard
  /\ \A k \in DOMAIN players : ~players[k].yellowCard /\ ~players[k].redCard

InField(pos) ==
  /\ Leq(Num(0), pos.x) /\ Leq(pos.x, Num(100))
  /\ Leq(Num(0), pos.y) /\ Leq(pos.y, Num(100))

\* C29: the only writers of the override maps in these behaviours are the
\* drags of both teams, in split and in vertical mode, with pointers inside
\* and far outside the field: every stored override has x and y in [0, 100]
C29_OverridesInField ==
  /\ \A i \in DOMAIN overrides : InField(overrides[i])
  /\ \A i \in DOMAIN overridesB : InField(overridesB[i])

\* a vertical-mode drag of team A's seat 0 far past the lower left corner of
\* the field left the override on the corner
C29_Witness ==
  /\ lastEvent.name = "onPointerMove" /\ lastEvent.dx = 0 - 900 /\ lastEvent.dy = 900
  /\ verticalMode
  /\ 0 \in DOMAIN overrides
  /\ overrides[0] = [ x |-> Num(0), y |-> Num(100) ]

EffectivePos(f, ov, index) ==
  IF index \in DOMAIN ov THEN ov[index] ELSE calcPositions(f)[index + 1]

\* C31: with n the seat count of the formation, the payload and the screen
\* hold exactly the seats 0 .. n - 1, in order, for both teams, so an
\* override entry with index n or more produces no seat; and in split mode
\* every seat is at its own override or default, whatever stale entries
\* the map holds
C31_StaleOverridesInert ==
  probe.op = "positions" =>
    LET n == LinesTotal(probe.formation.lines)
    IN  /\ [ k \in DOMAIN probe.sentA |-> probe.sentA[k].id ] = [ k \in 1..n |-> << "A", k - 1 >> ]
        /\ [ k \in DOMAIN probe.sentB |-> probe.sentB[k].id ] = [ k \in 1..n |-> << "B", k - 1 >> ]
        /\ [ k \in DOMAIN probe.drawnA |-> probe.drawnA[k].index ] = [ k \in 1..n |-> k - 1 ]
        /\ [ k \in DOMAIN probe.drawnB |-> probe.drawnB[k].index ] = [ k \in 1..n |-> k - 1 ]
        /\ ~probe.vertical =>
             \A k \in 1..n :
               LET e == EffectivePos(probe.formation, probe.overrides, k - 1)
               IN  /\ << probe.drawnA[k].left, probe.drawnA[k].top >> = << e.x, e.y >>
                   /\ << probe.drawnB[k].left, probe.drawnB[k].top >> = << e.x, e.y >>
                   /\ << probe.sentA[k].x, probe.sentA[k].y >> = << round2(e.x), round2(e.y) >>
                   /\ << probe.sentB[k].x, probe.sentB[k].y >> = << round2(e.x), round2(e.y) >>

\* ten seats, eleven players, overrides of seat 0 and of the stale seat 10:
\* ten seats are sent, seat 0 at its override, none at the stale one
C31_Witness ==
  /\ probe.op = "positions" /\ ~probe.vertical
  /\ LinesTotal(probe.formation.lines) = 10
  /\ DOMAIN probe.overrides = { 0, 10 }
  /\ Len(probe.sentA) = 10 /\ Len(probe.drawnB) = 10
  /\ probe.sentA[1].x = Num(20) /\ probe.sentA[1].y = Num(30)
  /\ \A k \in DOMAIN probe.sentA : probe.sentA[k].x # Num(60)

\* the projection of a split-space position into the mode's space
Projected(team, pos, vertical) ==
  IF ~vertical THEN pos
  ELSE [ x |-> Plus(Num(50), Times(Minus(pos.x, Num(50)), Frac(115, 100))),
         y |-> IF team = "A"
                 THEN Plus(Num(2), Times(Over(pos.y, Num(100)), Num(50)))
                 ELSE Plus(Num(48), Times(Over(Minus(Num(100), pos.y), Num(100)), Num(50))) ]

\* C32: every seat of the payload is at the effective position (override or
\* default) projected by the mode: unchanged in split mode, and in vertical
\* mode x' = 50 + (x - 50) * 1.15 with y' = 2 + y / 100 * 50 for team A and
\* y' = 48 + (100 - y) / 100 * 50 for team B, rounded to two decimals; the
\* seat drawn for the same state is at the same projected position unrounded
C32_PayloadIsProjected ==
  probe.op = "positions" =>
    /\ Len(probe.sentA) = Len(probe.drawnA) /\ Len(probe.sentB) = Len(probe.drawnB)
    /\ \A k \in DOMAIN probe.sentA :
         LET a == Projected("A", EffectivePos(probe.formation, probe.overrides, k - 1),
                            probe.vertical)
         IN  /\ << probe.drawnA[k].left, probe.drawnA[k].top >> = << a.x, a.y >>
             /\ << probe.sentA[k].x, probe.sentA[k].y >> = << round2(a.x), round2(a.y) >>
    /\ \A k \in DOMAIN probe.sentB :
         LET b == Projected("B", EffectivePos(probe.formation, probe.overrides, k - 1),
                            probe.vertical)
         IN  /\ << probe.drawnB[k].left, probe.drawnB[k].top >> = << b.x, b.y >>
             /\ << probe.sentB[k].x, probe.sentB[k].y >> = << round2(b.x), round2(b.y) >>

\* vertical mode with seat 0 overridden at (100/3, 200/7): team A's seat is
\* sent at (30.83, 16.29) and team B's at (30.83, 83.71), and the drawn
\* seat differs from the sent one by the rounding only
C32_Witness ==
  /\ probe.op = "positions" /\ probe.vertical
  /\ 0 \in DOMAIN probe.overrides /\ probe.overrides[0].x = Frac(100, 3)
  /\ << probe.sentA[1].x, probe.sentA[1].y >> = << Frac(3083, 100), Frac(1629, 100) >>
  /\ << probe.sentB[1].x, probe.sentB[1].y >> = << Frac(3083, 100), Frac(8371, 100) >>
  /\ probe.drawnA[1].left # probe.sentA[1].x

\* the payload holds the seat of the team and index at the projection of pos
SentSeatAt(team, index, pos) ==
  /\ IsSome(lastSent)
  /\ LET seats == IF team = "A" THEN TheVal(lastSent).teams.A ELSE TheVal(lastSent).teams.B
         at == Projected(team, pos, TheVal(lastSent).verticalMode)
     IN  \E k \in DOMAIN seats : /\ seats[k].id = << team, index >>
                                  /\ seats[k].x = round2(at.x) /\ seats[k].y = round2(at.y)

\* the debounced send has just run
DebouncedSendRan == lastEvent = [ name |-> "timer", kind |-> "broadcast", ref |-> "broadcast",
                                  delay |-> 100 ]

\* the last step was the release of a drag of the team's seat
DragReleased(team, index) ==
  /\ lastEvent.name = (IF team = "A" THEN "onPointerUp" ELSE "onPointerUpB")
  /\ lastEvent.moved /\ lastEvent.index = index

\* the debounced send has just run with the seat at its stored override, or
\* the session went on to another event
SentOrChanged(team, index) ==
  \/ lastEvent.name \notin { "timer", IF team = "A" THEN "onPointerUp" ELSE "onPointerUpB" }
  \/ /\ DebouncedSendRan
     /\ index \in DOMAIN (IF team = "A" THEN overrides ELSE overridesB)
     /\ SentSeatAt(team, index, IF team = "A" THEN overrides[index] ELSE overridesB[index])

\* C33: the release of a drag arms the debounced send, and unless another
\* event follows, the send runs and its payload holds the dragged seat at
\* the override the last move stored, for both teams
C33_DragIsSent ==
  /\ DragReleased("A", 0) ~> SentOrChanged("A", 0)
  /\ DragReleased("B", 10) ~> SentOrChanged("B", 10)

\* the debounced send of a vertical-mode drag of team B's seat 10 has run
\* and nothing happened since the release
C33_Witness ==
  /\ DebouncedSendRan /\ draggingRefB = None
  /\ 10 \in DOMAIN overridesB /\ verticalMode
  /\ SentSeatAt("B", 10, overridesB[10])
  /\ timers = << >>

\* the step saved the edit dialog of a seat the team's formation does not have
SavedOutOfRange(team) ==
  /\ IsEvent(IF team = "A" THEN "handleSavePlayer" ELSE "handleSavePlayerB")
  /\ lastEvent'.index >= LinesTotal(IF team = "A" THEN formation.lines ELSE formationB.lines)

\* C34: saving the edit dialog of a seat index at or above the seat count of
\* the team's formation leaves the team's roster as it is, and the roster
\* keeps the size of the formation
C34_OutOfRangeSaveIgnored ==
  [][ /\ SavedOutOfRange("A") =>
           players' = players /\ Len(players') = LinesTotal(formation'.lines)
      /\ SavedOutOfRange("B") =>
           playersB' = playersB /\ Len(playersB') = LinesTotal(formationB'.lines) ]_vars

\* C35: the swap button exchanges everything the two teams hold: afterwards
\* team A's name, logo, colour, formation, roster and score are team B's
\* from before the swap, and team B's are team A's
C35_SwapExchangesAll ==
  [][ IsEvent("handleSwapTeams") =>
        /\ << teamNameA, teamLogoA, uniformColor, formation, players, scoreA >>'
             = << teamNameB, teamLogoB, uniformColorB, formationB, playersB, scoreB >>
        /\ << teamNameB, teamLogoB, uniformColorB, formationB, playersB, scoreB >>'
             = << teamNameA, teamLogoA, uniformColor, formation, players, scoreA >> ]_vars

\* the roster `new` is the roster `old` resized to the seats of formation f:
\* a seat that existed keeps its number and its name unless they are empty,
\* every other number and name is the default of the seat
ResizedFrom(new, old, f) ==
  /\ Len(new) = LinesTotal(f.lines)
  /\ \A k \in 1..Len(new) :
       /\ new[k].number = (IF k <= Len(old) /\ old[k].number # "" THEN old[k].number
                           ELSE DefaultNumber(k - 1))
       /\ new[k].name = (IF k <= Len(old) /\ old[k].name # "" THEN old[k].name
                         ELSE DefaultName(k - 1))

\* C36: choosing a formation for one team stores it, resizes that team's
\* roster to the seat count of the new formation, keeping the non-empty
\* number and name of every seat that existed and giving every other seat
\* its default, and leaves the other team's formation, roster and override
\* map as they were
C36_FormationChangeResizes ==
  [][ /\ IsEvent("updatePlayersForFormation") =>
           /\ formation'.name = lastEvent'.formation
           /\ ResizedFrom(players', players, formation')
           /\ UNCHANGED << formationB, playersB, overridesB >>
      /\ IsEvent("updatePlayersForFormationB") =>
           /\ formationB'.name = lastEvent'.formation
           /\ ResizedFrom(playersB', playersB, formationB')
           /\ UNCHANGED << formation, players, overrides >> ]_vars

\* team A went from the ten seats of the loaded 4-4-1 to eleven: seat 0
\* keeps its typed name, seat 10 is new, and team B still has its ten seats
\* and its dragged seat 0
C36_Witness ==
  /\ lastEvent.name = "updatePlayersForFormation"
  /\ Len(players) = 11 /\ players[1].name = "Kim" /\ players[11].name = DefaultName(10)
  /\ formationB.lines = << 1, 4, 4, 1 >> /\ Len(playersB) = 10
  /\ 0 \in DOMAIN overridesB

\* formation, roster, score and identity of both teams
matchState ==
  << formation, players, scoreA, teamNameA, teamLogoA,
     formationB, playersB, scoreB, teamNameB, teamLogoB >>

\* the step delivers the answer of a tick while polling is stopped: ticks
\* come from the interval and stopping clears it, so the request was in
\* flight when the stop button was pressed
TickAnswerAfterStop ==
  /\ IsEvent("loadMatchLineupAnswer")
  /\ lastEvent'.isAutoRefresh
  /\ ~autoRefreshEnabled /\ selectedFixtureId = None

\* C37: once polling is stopped, the answer of a tick that was still in
\* flight changes neither formation, roster, score nor identity of a team
C37_StopDiscardsInFlight ==
  [][ TickAnswerAfterStop => matchState' = matchState ]_vars

\* the step delivers the answer of a request issued before the operator
\* loaded another fixture, whose request is still in flight
LateAnswer ==
  /\ IsEvent("loadMatchLineupAnswer")
  /\ \E k \in DOMAIN inflight : \E j \in DOMAIN inflight :
       /\ k < j
       /\ inflight[k].fixtureId = lastEvent'.fixtureId
       /\ inflight[j].fixtureId # inflight[k].fixtureId
       /\ ~inflight[j].isAutoRefresh
       /\ inflight' = RemoveAt(inflight, k)

\* C38: the answer of a request for fixture F that arrives after the
\* operator has loaded fixture G is not applied: formation, roster, score
\* and identity of both teams and the fixture binding stay as they were
C38_LateAnswerDropped ==
  [][ LateAnswer =>
        /\ matchState' = matchState
        /\ selectedFixtureId' = selectedFixtureId ]_vars

\* the sends the step armed, as positions of the new timer queue; the
\* queue keeps the timers of one step in the order they fire
ArmedSends(before, after) ==
  { i \in DOMAIN after : after[i].id \notin TimerIds(before) /\ after[i].cb.kind = "broadcast" }

\* the step applied the answer of a load or of a tick
AnyAnswerApplied == IsEvent("loadMatchLineupAnswer") /\ lastEvent'.applied

\* C39: of the sends an applied feed answer arms, the one that fires last
\* carries the fetched status and elapsed time of the match, so no later
\* send of the same update replaces them with null
C39_LastSendCarriesStatus ==
  [][ AnyAnswerApplied =>
        LET armed == ArmedSends(timers, timers')
            last == CHOOSE i \in armed : \A j \in armed : j <= i
            status == lastEvent'.answer.fixture.status
        IN  /\ armed # { }
            /\ timers'[last].cb.args.matchStatus = Some(status.short)
            /\ timers'[last].cb.args.matchTime = formatMatchTime(status.elapsed) ]_vars


====
